---- MODULE Spec2Model ----
(***************************************************************************)
(* Model of the tools of the fansub toolkit:                               *)
(*   src/cross-reference.py  explicit references  CR-<folder>-[n1,n2,...]  *)
(*   src/report.py           keyword references   replay/preview <number>  *)
(*   src/tools/fuzzy-text-checker/fuzzy_checker.py  the results list       *)
(*   src/mux.py              the batch loop over the episodes              *)
(*                                                                         *)
(* A Python str is a sequence of one-character strings.  A value that may  *)
(* be None is the empty set (None) or a singleton set holding the value,   *)
(* so that None and the empty string stay different values.                *)
(***************************************************************************)
EXTENDS Integers, Sequences, FiniteSets, TLC

VARIABLES
    \* ---- classification of one pair of texts (get_match_status)
    text1, text2, fuzzy_threshold, status, similarity, cpc,
    \* ---- lookup of one reference in one target folder (find_text_in_folder)
    target_folder, line_numbers, search_text, found, lpc,
    \* ---- a run of cross-reference.py (main and process_files)
    pc,                 \* where the run is
    base_dir,           \* the directory tree at args.path
    args_range,         \* args.range
    folders_to_process, \* process_files: the padded folder names
    folder_idx,         \* process_files: position in folders_to_process
    file_idx,           \* process_files: position in ass_files
    line_idx,           \* process_files: line_num, position in event_lines
    results,            \* process_files: the result list
    args_filter,        \* args.filter, None until main reads it
    args_fail,          \* args.fail_on_issues, None until main reads it
    displayed,          \* what generate_report printed, None before it
    exit_code,          \* the exit status, None while running
    accesses,           \* number of folders and files looked at so far
    \* ---- one call of one function of the tools on its own
    callee,             \* the function called
    args,               \* its argument, or the tuple of its arguments
    returned,           \* what it returned, None before the call
    call_pc,            \* "call" before the call, "return" after it
    \* ---- the window of the fuzzy text checker (FuzzyCheckerApp)
    app_results,        \* self.results
    resolved_items,     \* self.resolved_items: indices of results, from 0
    results_listbox,    \* the rows of self.results_listbox
    curselection,       \* the selected row of the listbox, from 0, or None
    last_event,         \* the handler that ran last and how it ended
    \* ---- a run of mux.py (module level and main)
    config_value,       \* the value of "episodes" in config.toml
    config_episodes,    \* CONFIG["episodes"], None before load_config
    episodes_path,      \* whether CONFIG["episodes_path"] exists
    ep_idx,             \* main: position of the loop in CONFIG["episodes"]
    attempted,          \* the episodes process_episode was called with
    error_log,          \* the episodes whose error was logged
    work_dir,           \* whether PROJECT_DIR / "_workdir" exists
    mux_pc              \* where the run is

classify_vars == <<text1, text2, status, similarity, cpc>>
locate_vars == <<target_folder, line_numbers, search_text, found, lpc>>
run_vars == <<pc, base_dir, args_range, folders_to_process, folder_idx, file_idx,
              line_idx, results, args_filter, args_fail, displayed, exit_code,
              accesses>>

call_vars == <<callee, args, returned, call_pc>>
gui_vars == <<app_results, resolved_items, results_listbox, curselection, last_event>>
mux_vars == <<config_value, config_episodes, episodes_path, ep_idx, attempted,
              error_log, work_dir, mux_pc>>

vars == <<classify_vars, fuzzy_threshold, locate_vars, run_vars, call_vars, gui_vars,
          mux_vars>>

(***************************************************************************)
(* Bounds of the model.                                                    *)
(***************************************************************************)
\* longest text of the classification specification
MaxLen == 3
\* size of a target folder of the lookup specification: its files plus their
\* lines (the two header lines of a file that has them not counted)
MaxFolder == 4
\* most files of a folder in a run of cross-reference.py
MaxFiles == 2

(***************************************************************************)
(* Python values.                                                          *)
(***************************************************************************)
None == {}
Some(v) == {v}
The(o) == CHOOSE v \in o : TRUE

\* class MatchStatus
EXACT == "EXACT MATCH"
SIMILAR == "SIMILAR"
DIFFERENT == "DIFFERENT"
NOT_FOUND == "NOT FOUND"

\* characters matched by the regular expression class \s, and stripped by str.strip()
Whitespace == {" ", "\t", "\n", "\r"}

\* all sequences over S of length at most n
SeqUpTo(S, n) == UNION {[1..k -> S] : k \in 0..n}

\* s[i..j], the Python slice s[i-1:j]
Slice(s, i, j) == IF i > j THEN <<>> ELSE SubSeq(s, i, j)

\* s.startswith(p) at offset i (1-based): p occurs in s at position i
OccursAt(p, s, i) ==
    /\ i >= 1
    /\ i + Len(p) - 1 <= Len(s)
    /\ \A k \in 1..Len(p) : s[i + k - 1] = p[k]

startswith(s, p) == OccursAt(p, s, 1)

\* Python's  p in s  for strings
Contains(s, p) == \E i \in 1..(Len(s) + 1) : OccursAt(p, s, i)

\* str.strip(): drop leading and trailing whitespace
strip(s) ==
    LET keep == {i \in 1..Len(s) : s[i] \notin Whitespace}
    IN  IF keep = {} THEN <<>>
        ELSE LET lo == CHOOSE i \in keep : \A j \in keep : i <= j
                 hi == CHOOSE i \in keep : \A j \in keep : j <= i
             IN  SubSeq(s, lo, hi)

\* str.split(sep) for a non-empty separator: the pieces between the
\* non-overlapping occurrences of sep, found left to right
RECURSIVE SplitFrom(_, _, _, _)
SplitFrom(s, sep, i, cur) ==
    IF i > Len(s) THEN <<cur>>
    ELSE IF OccursAt(sep, s, i)
         THEN <<cur>> \o SplitFrom(s, sep, i + Len(sep), <<>>)
         ELSE SplitFrom(s, sep, i + 1, Append(cur, s[i]))

split(s, sep) == SplitFrom(s, sep, 1, <<>>)

\* re.sub(r"\\N", " ", text): every non-overlapping backslash-N, left to right
RECURSIVE SubLineBreaks(_, _)
SubLineBreaks(s, i) ==
    IF i > Len(s) THEN <<>>
    ELSE IF OccursAt(<<"\\", "N">>, s, i)
         THEN <<" ">> \o SubLineBreaks(s, i + 2)
         ELSE <<s[i]>> \o SubLineBreaks(s, i + 1)

\* re.sub(r"\s+", " ", text): every maximal run of whitespace becomes one space
RECURSIVE SubWhitespace(_, _)
SubWhitespace(s, i) ==
    IF i > Len(s) THEN <<>>
    ELSE IF s[i] \in Whitespace
         THEN IF i > 1 /\ s[i - 1] \in Whitespace
              THEN SubWhitespace(s, i + 1)
              ELSE <<" ">> \o SubWhitespace(s, i + 1)
         ELSE <<s[i]>> \o SubWhitespace(s, i + 1)

\* Python truthiness of an optional str:  bool(x)
Truthy(o) == o # None /\ The(o) # <<>>

\* normalize_text collapsing the whitespace before it replaces the markers
normalize_text_collapse_first(text) ==
    IF ~Truthy(text) THEN <<>>
    ELSE strip(SubLineBreaks(SubWhitespace(The(text), 1), 1))

\* normalize_text(text); text may be None
normalize_text(text) ==
    IF ~Truthy(text) THEN <<>>
    ELSE strip(SubWhitespace(SubLineBreaks(The(text), 1), 1))

\* extract_text_from_line taking parts[1], the field after the first separator
extract_text_from_line_second(line) ==
    LET parts == split(line, <<",", ",">>)
    IN  IF Len(parts) >= 2 THEN Some(strip(parts[2])) ELSE None

\* extract_text_from_line / extract_text_from_dialogue
extract_text_from_line(line) ==
    LET parts == split(line, <<",", ",">>)
    IN  IF Len(parts) >= 2 THEN Some(strip(parts[Len(parts)])) ELSE None

(***************************************************************************)
(* difflib.SequenceMatcher(None, a, b).ratio(), as cross-reference.py      *)
(* calls it: no junk, and no "popular" elements below 200 characters.      *)
(***************************************************************************)
\* length of the common run of a and b starting at a[i], b[j], inside the windows
RECURSIVE RunLen(_, _, _, _, _, _)
RunLen(a, b, i, j, ahi, bhi) ==
    IF i <= ahi /\ j <= bhi /\ a[i] = b[j]
    THEN 1 + RunLen(a, b, i + 1, j + 1, ahi, bhi)
    ELSE 0

\* find_longest_match(alo, ahi, bhi, bhi) on the 1-based inclusive windows
\* a[alo..ahi], b[blo..bhi]: the longest block, of those the one starting
\* earliest in a, and of those the one starting earliest in b
find_longest_match(a, b, alo, ahi, blo, bhi) ==
    LET cand == {<<i, j>> \in (alo..ahi) \X (blo..bhi) : a[i] = b[j]}
        size(p) == RunLen(a, b, p[1], p[2], ahi, bhi)
    IN  IF cand = {} THEN <<alo, blo, 0>>
        ELSE LET best == CHOOSE p \in cand :
                     \A q \in cand :
                         \/ size(p) > size(q)
                         \/ /\ size(p) = size(q)
                            /\ \/ p[1] < q[1]
                               \/ p[1] = q[1] /\ p[2] <= q[2]
             IN  <<best[1], best[2], size(best)>>

\* sum of the sizes of get_matching_blocks(): the longest block, then the
\* same to its left and to its right
RECURSIVE MatchedCount(_, _, _, _, _, _)
MatchedCount(a, b, alo, ahi, blo, bhi) ==
    IF alo > ahi \/ blo > bhi THEN 0
    ELSE LET m == find_longest_match(a, b, alo, ahi, blo, bhi)
         IN  IF m[3] = 0 THEN 0
             ELSE m[3]
                  + MatchedCount(a, b, alo, m[1] - 1, blo, m[2] - 1)
                  + MatchedCount(a, b, m[1] + m[3], ahi, m[2] + m[3], bhi)

\* the ratio without the case of two empty sequences, which then score 0
Ratio100_no_empty_case(a, b) ==
    LET total == Len(a) + Len(b)
    IN  IF total = 0 THEN [num |-> 0, den |-> 1]
        ELSE [num |-> 200 * MatchedCount(a, b, 1, Len(a), 1, Len(b)), den |-> total]

\* ratio() * 100 as the exact fraction num/den: 2*matches/(len(a)+len(b)),
\* and 1.0 when both are empty
Ratio100(a, b) ==
    LET total == Len(a) + Len(b)
    IN  IF total = 0 THEN [num |-> 100, den |-> 1]
        ELSE [num |-> 200 * MatchedCount(a, b, 1, Len(a), 1, Len(b)), den |-> total]

\* calculate_similarity(text1, text2)
calculate_similarity(t1, t2) == Ratio100(normalize_text(t1), normalize_text(t2))

\* similarity >= fuzzy_threshold, for an integer threshold
AtLeast(sim, threshold) == sim.num >= threshold * sim.den

\* get_match_status comparing the texts as written, not their normal forms
get_match_status_raw(t1, t2, threshold) ==
    IF ~Truthy(t1) \/ ~Truthy(t2) THEN NOT_FOUND
    ELSE IF t1 = t2 THEN EXACT
    ELSE IF AtLeast(calculate_similarity(t1, t2), threshold) THEN SIMILAR
    ELSE DIFFERENT

\* get_match_status with  similarity > fuzzy_threshold
get_match_status_strict(t1, t2, threshold) ==
    IF ~Truthy(t1) \/ ~Truthy(t2) THEN NOT_FOUND
    ELSE IF normalize_text(t1) = normalize_text(t2) THEN EXACT
    ELSE IF calculate_similarity(t1, t2).num > threshold * calculate_similarity(t1, t2).den
         THEN SIMILAR
    ELSE DIFFERENT

\* get_match_status(text1, text2, fuzzy_threshold)
get_match_status(t1, t2, threshold) ==
    IF ~Truthy(t1) \/ ~Truthy(t2) THEN NOT_FOUND
    ELSE IF normalize_text(t1) = normalize_text(t2) THEN EXACT
    ELSE IF AtLeast(calculate_similarity(t1, t2), threshold) THEN SIMILAR
    ELSE DIFFERENT

(***************************************************************************)
(* Numbers in text: int(), str(), str.zfill(), and the two parsers of      *)
(* cross-reference.py.  A call that raises ValueError gives None.          *)
(***************************************************************************)
Digits == <<"0", "1", "2", "3", "4", "5", "6", "7", "8", "9">>
IsDigit(c) == \E d \in 1..10 : Digits[d] = c
DigitValue(c) == (CHOOSE d \in 1..10 : Digits[d] = c) - 1

\* value of a non-empty string of decimal digits
RECURSIVE DecimalValue(_)
DecimalValue(s) ==
    IF s = <<>> THEN 0
    ELSE 10 * DecimalValue(SubSeq(s, 1, Len(s) - 1)) + DigitValue(s[Len(s)])

\* int(s) for a string of digits and whitespace: the value of the digits
\* between surrounding whitespace, ValueError (None) if that is not a number
int(s) ==
    LET t == strip(s)
    IN  IF t # <<>> /\ \A i \in 1..Len(t) : IsDigit(t[i])
        THEN Some(DecimalValue(t))
        ELSE None

\* str(n) for n >= 0
RECURSIVE str(_)
str(n) == IF n < 10 THEN <<Digits[n + 1]>> ELSE str(n \div 10) \o <<Digits[(n % 10) + 1]>>

\* s.zfill(width)
RECURSIVE zfill(_, _)
zfill(s, width) == IF Len(s) >= width THEN s ELSE zfill(<<"0">> \o s, width)

\* parse_range with range(int(start), int(end)): the end of the range left out
parse_range_exclusive(range_str) ==
    IF Contains(range_str, <<"-">>)
    THEN LET parts == split(range_str, <<"-">>)
         IN  IF Len(parts) # 2 \/ int(parts[1]) = None \/ int(parts[2]) = None THEN None
             ELSE Some([k \in 1..(The(int(parts[2])) - The(int(parts[1]))) |->
                           The(int(parts[1])) + k - 1])
    ELSE IF int(range_str) = None THEN None
         ELSE Some(<<The(int(range_str))>>)

\* parse_range(range_str): the list of folder numbers, None if it raises
\* (a part that is no number, or more than one "-")
parse_range(range_str) ==
    IF Contains(range_str, <<"-">>)
    THEN LET parts == split(range_str, <<"-">>)
         IN  IF Len(parts) # 2 \/ int(parts[1]) = None \/ int(parts[2]) = None THEN None
             ELSE Some([k \in 1..(The(int(parts[2])) + 1 - The(int(parts[1]))) |->
                           The(int(parts[1])) + k - 1])
    ELSE IF int(range_str) = None THEN None
         ELSE Some(<<The(int(range_str))>>)

\* characters of the class [0-9,\s]
IsListChar(c) == IsDigit(c) \/ c = "," \/ c \in Whitespace

\* length of the longest run from position i of digits, or of characters
\* of the list class [0-9,\s] when list_chars
RECURSIVE RunOf(_, _, _)
RunOf(list_chars, s, i) ==
    IF i <= Len(s) /\ (IF list_chars THEN IsListChar(s[i]) ELSE IsDigit(s[i]))
    THEN 1 + RunOf(list_chars, s, i + 1)
    ELSE 0

\* the match of CR-(\d+)-\[([0-9,\s]+)\] starting at position i, if any:
\* the two groups; both repetitions are greedy and what follows each cannot
\* be in it, so there is at most one way to match at i
MatchTagAt(line, i) ==
    LET d == RunOf(FALSE, line, i + 3)
        l == RunOf(TRUE, line, i + 3 + d + 2)
    IN  IF /\ OccursAt(<<"C", "R", "-">>, line, i)
           /\ d >= 1
           /\ OccursAt(<<"-", "[">>, line, i + 3 + d)
           /\ l >= 1
           /\ OccursAt(<<"]">>, line, i + 3 + d + 2 + l)
        THEN Some([folder |-> SubSeq(line, i + 3, i + 3 + d - 1),
                   list |-> SubSeq(line, i + 3 + d + 2, i + 3 + d + 2 + l - 1)])
        ELSE None

\* the match at the rightmost position that has one
SearchTag_last(line) ==
    LET at == {i \in 1..Len(line) : MatchTagAt(line, i) # None}
    IN  IF at = {} THEN None
        ELSE MatchTagAt(line, CHOOSE i \in at : \A j \in at : j <= i)

\* re.search: the match at the leftmost position that has one
SearchTag(line) ==
    LET at == {i \in 1..Len(line) : MatchTagAt(line, i) # None}
    IN  IF at = {} THEN None
        ELSE MatchTagAt(line, CHOOSE i \in at : \A j \in at : i <= j)

\* find_cross_reference_pattern(line): [raised, folder, line_numbers];
\* raised when int() rejects an element of the list, else folder and
\* line_numbers are None, None or the padded folder and the numbers
find_cross_reference_pattern(line) ==
    LET m == SearchTag(line)
        xs == split(The(m).list, <<",">>)
    IN  IF m = None THEN [raised |-> FALSE, folder |-> None, line_numbers |-> None]
        ELSE IF \E k \in 1..Len(xs) : int(xs[k]) = None
             THEN [raised |-> TRUE, folder |-> None, line_numbers |-> None]
        ELSE [raised |-> FALSE,
              folder |-> Some(zfill(The(m).folder, 2)),
              line_numbers |-> Some([k \in 1..Len(xs) |-> The(int(xs[k]))])]

(***************************************************************************)
(* The file system.  A path is missing, a regular file, or a directory; a  *)
(* directory lists its entries in the order the directory listing yields   *)
(* them.  An entry has a name, the lines readlines() gives (without their  *)
(* line ends, which strip() removes from every text), and whether open()   *)
(* and the read succeed under some encoding.                               *)
(***************************************************************************)
MissingPath == [kind |-> "missing", entries |-> <<>>]
RegularFile == [kind |-> "file", entries |-> <<>>]
Directory(entries) == [kind |-> "dir", entries |-> entries]

\* Path.exists() and Path.is_dir()
exists(path) == path.kind # "missing"
is_dir(path) == path.kind = "dir"

DotAss == <<".", "a", "s", "s">>

\* s.endswith(p)
endswith(s, p) == OccursAt(p, s, Len(s) - Len(p) + 1)

\* list(folder.glob("*")): every entry, whatever its type
glob_all(folder) == folder.entries

\* list(folder.glob("*.ass")): the entries whose name ends in .ass, in listing order
glob_ass(folder) == SelectSeq(folder.entries, LAMBDA e : endswith(e.name, DotAss))

\* read_ass_file(file_path): the lines under the first encoding that reads, else []
read_ass_file(file) == IF file.readable THEN file.lines ELSE <<>>

\* literal texts of the subtitle format
EventsHeader == <<"[", "E", "v", "e", "n", "t", "s", "]">>
FormatPrefix == <<"F", "o", "r", "m", "a", "t", ":">>
DialoguePrefix == <<"D", "i", "a", "l", "o", "g", "u", "e", ":">>
CommentPrefix == <<"C", "o", "m", "m", "e", "n", "t", ":">>
FieldSeparator == <<",", ",">>

\* the loop of get_event_lines from line i on, with its two flags
RECURSIVE EventLinesFrom(_, _, _, _)
EventLinesFrom(lines, i, in_events, found_format) ==
    IF i > Len(lines) THEN <<>>
    ELSE IF Contains(lines[i], EventsHeader)
         THEN EventLinesFrom(lines, i + 1, TRUE, found_format)
    ELSE IF in_events /\ startswith(lines[i], FormatPrefix)
         THEN EventLinesFrom(lines, i + 1, in_events, TRUE)
    ELSE IF in_events /\ found_format
            /\ (startswith(lines[i], DialoguePrefix) \/ startswith(lines[i], CommentPrefix))
         THEN <<lines[i]>> \o EventLinesFrom(lines, i + 1, in_events, found_format)
    ELSE EventLinesFrom(lines, i + 1, in_events, found_format)

\* get_event_lines(file_path)
get_event_lines(file) == EventLinesFrom(read_ass_file(file), 1, FALSE, FALSE)

\* sep.join(texts)
RECURSIVE join(_, _)
join(texts, sep) ==
    IF texts = <<>> THEN <<>>
    ELSE IF Len(texts) = 1 THEN texts[1]
    ELSE texts[1] \o sep \o join(Tail(texts), sep)

\* the loop of get_text_from_lines: the texts of the requested ordinals that
\* are in range and not empty
RECURSIVE TextsOfLines(_, _, _)
TextsOfLines(event_lines, numbers, k) ==
    IF k > Len(numbers) THEN <<>>
    ELSE LET line_num == numbers[k]
             text == IF 1 <= line_num /\ line_num <= Len(event_lines)
                     THEN extract_text_from_line(event_lines[line_num])
                     ELSE None
         IN  IF Truthy(text)
             THEN <<The(text)>> \o TextsOfLines(event_lines, numbers, k + 1)
             ELSE TextsOfLines(event_lines, numbers, k + 1)

\* get_text_from_lines(file_path, line_numbers)
get_text_from_lines(file, numbers) ==
    LET texts == TextsOfLines(get_event_lines(file), numbers, 1)
    IN  IF texts # <<>> THEN Some(join(texts, <<" ">>)) ELSE None

\* what both find_text_in_folder return when nothing is found: None, None, None
NoMatch == [file |-> None, text |-> None, lines |-> None]

\* the loop of cross-reference.py's find_text_in_folder over the listed files
RECURSIVE FirstFileWithText(_, _, _)
FirstFileWithText(files, numbers, k) ==
    IF k > Len(files) THEN NoMatch
    ELSE LET text == get_text_from_lines(files[k], numbers)
         IN  IF Truthy(text)
             THEN [file |-> Some(files[k].name), text |-> text, lines |-> Some(numbers)]
             ELSE FirstFileWithText(files, numbers, k + 1)

\* cross-reference.py: find_text_in_folder(target_folder, line_numbers)
xref_find_text_in_folder(folder, numbers) ==
    IF ~exists(folder) \/ ~is_dir(folder) THEN NoMatch
    ELSE FirstFileWithText(glob_ass(folder), numbers, 1)

\* ScanLine leaving the loops at the exact match without returning it (break
\* for return): the best containment match so far is what is returned
ScanLine_break(file, li, normalized_search, best) ==
    LET target_line == read_ass_file(file)[li]
        extracted_text == extract_text_from_line(target_line)
        normalized_target == normalize_text(extracted_text)
        here == [file |-> Some(file.name), text |-> extracted_text, lines |-> Some(li)]
        \* score = len(x) / len(y) compared with best_match_score as fractions
        better(x, y, b) == Len(x) * b.den > b.num * Len(y)
        first == IF Contains(normalized_target, normalized_search)
                    /\ better(normalized_search, normalized_target, best)
                 THEN [num |-> Len(normalized_search), den |-> Len(normalized_target),
                       match |-> here]
                 ELSE best
        second == IF Contains(normalized_search, normalized_target)
                     /\ better(normalized_target, normalized_search, first)
                  THEN [num |-> Len(normalized_target), den |-> Len(normalized_search),
                        match |-> here]
                  ELSE first
    IN  IF ~Contains(target_line, DialoguePrefix) THEN [done |-> FALSE, best |-> best]
        ELSE IF ~Truthy(extracted_text) THEN [done |-> FALSE, best |-> best]
        ELSE IF normalized_target = normalized_search
             THEN [done |-> TRUE, best |-> best]
        ELSE [done |-> FALSE, best |-> second]

\* ScanLine with  score >= best_match_score: a tie goes to the later candidate
ScanLine_ties(file, li, normalized_search, best) ==
    LET target_line == read_ass_file(file)[li]
        extracted_text == extract_text_from_line(target_line)
        normalized_target == normalize_text(extracted_text)
        here == [file |-> Some(file.name), text |-> extracted_text, lines |-> Some(li)]
        \* score = len(x) / len(y) compared with best_match_score as fractions
        better(x, y, b) == Len(x) * b.den >= b.num * Len(y)
        first == IF Contains(normalized_target, normalized_search)
                    /\ better(normalized_search, normalized_target, best)
                 THEN [num |-> Len(normalized_search), den |-> Len(normalized_target),
                       match |-> here]
                 ELSE best
        second == IF Contains(normalized_search, normalized_target)
                     /\ better(normalized_target, normalized_search, first)
                  THEN [num |-> Len(normalized_target), den |-> Len(normalized_search),
                        match |-> here]
                  ELSE first
    IN  IF ~Contains(target_line, DialoguePrefix) THEN [done |-> FALSE, best |-> best]
        ELSE IF ~Truthy(extracted_text) THEN [done |-> FALSE, best |-> best]
        ELSE IF normalized_target = normalized_search
             THEN [done |-> TRUE, best |-> [num |-> 1, den |-> 1, match |-> here]]
        ELSE [done |-> FALSE, best |-> second]

\* one pass of the inner loop body of report.py's find_text_in_folder on line
\* li of file fi, with the best containment match so far; the result is
\* [done, best]: done when the exact match returned
ScanLine(file, li, normalized_search, best) ==
    LET target_line == read_ass_file(file)[li]
        extracted_text == extract_text_from_line(target_line)
        normalized_target == normalize_text(extracted_text)
        here == [file |-> Some(file.name), text |-> extracted_text, lines |-> Some(li)]
        \* score = len(x) / len(y) compared with best_match_score as fractions
        better(x, y, b) == Len(x) * b.den > b.num * Len(y)
        first == IF Contains(normalized_target, normalized_search)
                    /\ better(normalized_search, normalized_target, best)
                 THEN [num |-> Len(normalized_search), den |-> Len(normalized_target),
                       match |-> here]
                 ELSE best
        second == IF Contains(normalized_search, normalized_target)
                     /\ better(normalized_target, normalized_search, first)
                  THEN [num |-> Len(normalized_target), den |-> Len(normalized_search),
                        match |-> here]
                  ELSE first
    IN  IF ~Contains(target_line, DialoguePrefix) THEN [done |-> FALSE, best |-> best]
        ELSE IF ~Truthy(extracted_text) THEN [done |-> FALSE, best |-> best]
        ELSE IF normalized_target = normalized_search
             THEN [done |-> TRUE, best |-> [num |-> 1, den |-> 1, match |-> here]]
        ELSE [done |-> FALSE, best |-> second]

\* the two nested loops of report.py's find_text_in_folder from line li of file fi on
RECURSIVE ScanFolder(_, _, _, _, _)
ScanFolder(files, fi, li, normalized_search, best) ==
    IF fi > Len(files) THEN best.match
    ELSE IF li > Len(read_ass_file(files[fi]))
         THEN ScanFolder(files, fi + 1, 1, normalized_search, best)
    ELSE LET r == ScanLine(files[fi], li, normalized_search, best)
         IN  IF r.done THEN r.best.match
             ELSE ScanFolder(files, fi, li + 1, normalized_search, r.best)

\* Denominators with the exact match not returned before the scores
Denominators_no_return(file, li, normalized_search) ==
    LET target_line == read_ass_file(file)[li]
        extracted_text == extract_text_from_line(target_line)
        normalized_target == normalize_text(extracted_text)
    IN  IF ~Contains(target_line, DialoguePrefix) \/ ~Truthy(extracted_text) THEN {}
        ELSE (IF Contains(normalized_target, normalized_search)
              THEN {Len(normalized_target)} ELSE {})
                 \cup (IF Contains(normalized_search, normalized_target)
                       THEN {Len(normalized_search)} ELSE {})

\* the divisors of the scores the loop body of report.py's find_text_in_folder
\* computes on line li of the file: len(normalized_target) when the search
\* is inside the target, len(normalized_search) when the target is inside
\* the search; none when the line is passed over or returned as exact match
Denominators(file, li, normalized_search) ==
    LET target_line == read_ass_file(file)[li]
        extracted_text == extract_text_from_line(target_line)
        normalized_target == normalize_text(extracted_text)
    IN  IF ~Contains(target_line, DialoguePrefix) \/ ~Truthy(extracted_text) THEN {}
        ELSE IF normalized_target = normalized_search THEN {}
        ELSE (IF Contains(normalized_target, normalized_search)
              THEN {Len(normalized_target)} ELSE {})
                 \cup (IF Contains(normalized_search, normalized_target)
                       THEN {Len(normalized_search)} ELSE {})

\* the loops of report.py's find_text_in_folder from line li of file fi on
\* raise ZeroDivisionError: a score is divided by zero on a line the scan
\* comes to before it returns
RECURSIVE ScanRaises(_, _, _, _)
ScanRaises(files, fi, li, normalized_search) ==
    IF fi > Len(files) THEN FALSE
    ELSE IF li > Len(read_ass_file(files[fi]))
         THEN ScanRaises(files, fi + 1, 1, normalized_search)
    ELSE IF 0 \in Denominators(files[fi], li, normalized_search) THEN TRUE
    ELSE IF ScanLine(files[fi], li, normalized_search,
                     [num |-> 0, den |-> 1, match |-> NoMatch]).done
         THEN FALSE
    ELSE ScanRaises(files, fi, li + 1, normalized_search)

\* report.py: find_text_in_folder(target_folder, search_text) raises
report_find_text_in_folder_raises(folder, text) ==
    /\ exists(folder)
    /\ is_dir(folder)
    /\ ScanRaises(glob_ass(folder), 1, 1, normalize_text(text))

\* report.py: find_text_in_folder(target_folder, search_text)
report_find_text_in_folder(folder, text) ==
    IF ~exists(folder) \/ ~is_dir(folder) THEN NoMatch
    ELSE ScanFolder(glob_ass(folder), 1, 1, normalize_text(text),
                    [num |-> 0, den |-> 1, match |-> NoMatch])

(***************************************************************************)
(* Keyword references of report.py.                                        *)
(***************************************************************************)
Lowercase == <<"a", "b", "c", "d", "e", "f", "g", "h", "i", "j", "k", "l", "m",
               "n", "o", "p", "q", "r", "s", "t", "u", "v", "w", "x", "y", "z">>
Uppercase == <<"A", "B", "C", "D", "E", "F", "G", "H", "I", "J", "K", "L", "M",
               "N", "O", "P", "Q", "R", "S", "T", "U", "V", "W", "X", "Y", "Z">>

\* c.lower() for an ASCII character
lower(c) ==
    IF \E k \in 1..26 : Uppercase[k] = c
    THEN Lowercase[CHOOSE k \in 1..26 : Uppercase[k] = c]
    ELSE c

\* the alternatives of the pattern, in its order
Keywords == << <<"r", "e", "p", "l", "a", "y">>, <<"p", "r", "e", "v", "i", "e", "w">> >>

\* length of the run of whitespace from position i
RECURSIVE RunOfWhitespace(_, _)
RunOfWhitespace(s, i) ==
    IF i <= Len(s) /\ s[i] \in Whitespace THEN 1 + RunOfWhitespace(s, i + 1) ELSE 0

\* the match of (replay|preview)\s+(\d{1,3}) under re.IGNORECASE starting at
\* position i, if any: the keyword in lower case and the digits, three at most
MatchKeywordAt(line, i) ==
    LET here == {k \in 1..Len(Keywords) :
                    /\ i + Len(Keywords[k]) - 1 <= Len(line)
                    /\ \A j \in 1..Len(Keywords[k]) : lower(line[i + j - 1]) = Keywords[k][j]}
        k == CHOOSE x \in here : \A y \in here : x <= y
        w == RunOfWhitespace(line, i + Len(Keywords[k]))
        d == RunOf(FALSE, line, i + Len(Keywords[k]) + w)
        from == i + Len(Keywords[k]) + w
    IN  IF here # {} /\ w >= 1 /\ d >= 1
        THEN Some([pattern_type |-> Keywords[k],
                   number |-> SubSeq(line, from, from + (IF d > 3 THEN 3 ELSE d) - 1)])
        ELSE None

\* find_pattern_in_line(line): the leftmost match, or None, None
find_pattern_in_line(line) ==
    LET at == {i \in 1..Len(line) : MatchKeywordAt(line, i) # None}
    IN  IF at = {} THEN [pattern_type |-> None, number |-> None]
        ELSE LET m == The(MatchKeywordAt(line, CHOOSE i \in at : \A j \in at : i <= j))
             IN  [pattern_type |-> Some(m.pattern_type), number |-> Some(m.number)]

\* the body of the line loop of report.py's process_files up to the lookup:
\* None when the line is passed over, else the kind of reference, the target
\* folder (pattern_number) and the text searched for in it
report_reference(line) ==
    LET m == find_pattern_in_line(line)
        text == extract_text_from_line(line)
    IN  IF ~Contains(line, DialoguePrefix) THEN None
        ELSE IF ~Truthy(m.pattern_type) \/ ~Truthy(m.number) THEN None
        ELSE IF ~Truthy(text) THEN None
        ELSE Some([pattern_type |-> The(m.pattern_type),
                   pattern_number |-> zfill(The(m.number), 2),
                   search_text |-> The(text)])

(***************************************************************************)
(* process_files, filter_results and main of cross-reference.py.           *)
(***************************************************************************)
\* base_dir / name: a child of the base directory
Child(base, name) == IF name \in DOMAIN base.entries THEN base.entries[name] ELSE MissingPath

\* repr of a list of numbers inside an f-string: [1, 2]
ListRepr(numbers) == <<"[">> \o join([k \in 1..Len(numbers) |-> str(numbers[k])], <<",", " ">>) \o <<"]">>

\* MatchResult with the similarity computed outside the "if target_file and
\* target_text" block, so also when nothing was found
MatchResult_scored(base, folder_name, file_name, line_num, folder_num, numbers, text, threshold) ==
    LET hit == xref_find_text_in_folder(Child(base, folder_num), numbers)
        located == Truthy(hit.file) /\ Truthy(hit.text)
    IN  [folder |-> folder_name,
         file |-> file_name,
         line_num |-> line_num,
         cross_ref |-> <<"C", "R", "-">> \o folder_num \o <<"-">> \o ListRepr(numbers),
         target_folder |-> Some(folder_num),
         target_line_numbers |-> Some(numbers),
         text |-> text,
         target_file |-> hit.file,
         target_text |-> hit.text,
         similarity |-> Some(calculate_similarity(text, hit.text)),
         status |-> IF located THEN get_match_status(text, hit.text, threshold) ELSE NOT_FOUND]

\* MatchResult recording the target_lines find_text_in_folder returned (None
\* when nothing was found) in place of the target_line_numbers of the tag
MatchResult_returned(base, folder_name, file_name, line_num, folder_num, numbers, text, threshold) ==
    LET hit == xref_find_text_in_folder(Child(base, folder_num), numbers)
        located == Truthy(hit.file) /\ Truthy(hit.text)
    IN  [folder |-> folder_name,
         file |-> file_name,
         line_num |-> line_num,
         cross_ref |-> <<"C", "R", "-">> \o folder_num \o <<"-">> \o ListRepr(numbers),
         target_folder |-> Some(folder_num),
         target_line_numbers |-> hit.lines,
         text |-> text,
         target_file |-> hit.file,
         target_text |-> hit.text,
         similarity |-> IF located THEN Some(calculate_similarity(text, hit.text)) ELSE None,
         status |-> IF located THEN get_match_status(text, hit.text, threshold) ELSE NOT_FOUND]

\* the dict process_files appends for a line that holds a reference
\* (target_folder_num, target_line_numbers) and a text
MatchResult(base, folder_name, file_name, line_num, folder_num, numbers, text, threshold) ==
    LET hit == xref_find_text_in_folder(Child(base, folder_num), numbers)
        located == Truthy(hit.file) /\ Truthy(hit.text)
    IN  [folder |-> folder_name,
         file |-> file_name,
         line_num |-> line_num,
         cross_ref |-> <<"C", "R", "-">> \o folder_num \o <<"-">> \o ListRepr(numbers),
         target_folder |-> Some(folder_num),
         target_line_numbers |-> Some(numbers),
         text |-> text,
         target_file |-> hit.file,
         target_text |-> hit.text,
         similarity |-> IF located THEN Some(calculate_similarity(text, hit.text)) ELSE None,
         status |-> IF located THEN get_match_status(text, hit.text, threshold) ELSE NOT_FOUND]

\* filter_results with "matched" keeping the exact matches alone
filter_results_matched_exact(rs, type) ==
    LET keep == CASE type = "matched" -> {EXACT}
                  [] type = "not-found" -> {NOT_FOUND}
                  [] type = "different" -> {DIFFERENT}
                  [] type = "similar" -> {SIMILAR}
                  [] type = "exact" -> {EXACT}
                  [] OTHER -> {EXACT, SIMILAR, DIFFERENT, NOT_FOUND}
    IN  SelectSeq(rs, LAMBDA r : r.status \in keep)

\* filter_results(results, filter_type)
filter_results(rs, type) ==
    LET keep == CASE type = "matched" -> {EXACT, SIMILAR}
                  [] type = "not-found" -> {NOT_FOUND}
                  [] type = "different" -> {DIFFERENT}
                  [] type = "similar" -> {SIMILAR}
                  [] type = "exact" -> {EXACT}
                  [] OTHER -> {EXACT, SIMILAR, DIFFERENT, NOT_FOUND}
    IN  SelectSeq(rs, LAMBDA r : r.status \in keep)

\* the range check with both ends excluded
threshold_ok_open(threshold) == 0 < threshold /\ threshold < 100

\* main: 0 <= args.threshold <= 100
threshold_ok(threshold) == 0 <= threshold /\ threshold <= 100

\* main, from parse_args to the call of process_files: an out-of-range
\* threshold prints an error and exits 1; a range that does not parse raises
Main ==
    /\ pc = "main"
    /\ IF ~threshold_ok(fuzzy_threshold)
       THEN pc' = "exited" /\ exit_code' = Some(1)
       ELSE IF parse_range(args_range) = None
            THEN pc' = "raised" /\ exit_code' = Some(1)
            ELSE pc' = "process_files" /\ UNCHANGED exit_code
    /\ UNCHANGED <<base_dir, args_range, folders_to_process, folder_idx, file_idx,
                   line_idx, results, args_filter, args_fail, displayed, accesses>>
    /\ UNCHANGED <<classify_vars, fuzzy_threshold, locate_vars, call_vars, gui_vars, mux_vars>>

\* process_files up to its outer loop: a missing base path exits 1
StartProcessFiles ==
    /\ pc = "process_files"
    /\ accesses' = accesses + 1
    /\ IF ~exists(base_dir)
       THEN /\ pc' = "exited"
            /\ exit_code' = Some(1)
            /\ UNCHANGED <<folders_to_process, folder_idx>>
       ELSE /\ pc' = "folder"
            /\ folders_to_process' =
                   [k \in 1..Len(The(parse_range(args_range))) |->
                       zfill(str(The(parse_range(args_range))[k]), 2)]
            /\ folder_idx' = 1
            /\ UNCHANGED exit_code
    /\ UNCHANGED <<base_dir, args_range, file_idx, line_idx, results, args_filter,
                   args_fail, displayed>>
    /\ UNCHANGED <<classify_vars, fuzzy_threshold, locate_vars, call_vars, gui_vars, mux_vars>>

\* the folder, the listed files and the event lines the loops are at
CurrentFolder == Child(base_dir, folders_to_process[folder_idx])
\* the listing in the opposite order
CurrentFiles_reversed ==
    [k \in 1..Len(glob_ass(CurrentFolder)) |->
        glob_ass(CurrentFolder)[Len(glob_ass(CurrentFolder)) + 1 - k]]

CurrentFiles == glob_ass(CurrentFolder)
CurrentLines == get_event_lines(CurrentFiles[file_idx])

\* the outer loop: the next folder, skipped if it does not exist; after the
\* last one process_files returns
NextFolder ==
    /\ pc = "folder"
    /\ IF folder_idx > Len(folders_to_process)
       THEN pc' = "report" /\ UNCHANGED <<folder_idx, file_idx, accesses>>
       ELSE /\ accesses' = accesses + 1
            /\ IF ~exists(CurrentFolder)
               THEN pc' = "folder" /\ folder_idx' = folder_idx + 1 /\ UNCHANGED file_idx
               ELSE pc' = "file" /\ file_idx' = 1 /\ UNCHANGED folder_idx
    /\ UNCHANGED <<base_dir, args_range, folders_to_process, line_idx, results,
                   args_filter, args_fail, displayed, exit_code>>
    /\ UNCHANGED <<classify_vars, fuzzy_threshold, locate_vars, call_vars, gui_vars, mux_vars>>

\* the middle loop: the next .ass file of the folder, whose event lines are read
NextFile ==
    /\ pc = "file"
    /\ IF file_idx > Len(CurrentFiles)
       THEN pc' = "folder" /\ folder_idx' = folder_idx + 1 /\ UNCHANGED <<line_idx, accesses>>
       ELSE pc' = "line" /\ line_idx' = 1 /\ accesses' = accesses + 1 /\ UNCHANGED folder_idx
    /\ UNCHANGED <<base_dir, args_range, folders_to_process, file_idx, results,
                   args_filter, args_fail, displayed, exit_code>>
    /\ UNCHANGED <<classify_vars, fuzzy_threshold, locate_vars, call_vars, gui_vars, mux_vars>>

\* the body of the line loop of cross-reference.py's process_files up to the
\* lookup: raised when find_cross_reference_pattern raises; else reference is
\* None when the line is passed over (no tag, or no text), or the target
\* folder, the ordinals and the text of the line
xref_reference(line) ==
    LET ref == find_cross_reference_pattern(line)
        text == extract_text_from_line(line)
    IN  IF ref.raised THEN [raised |-> TRUE, reference |-> None]
        ELSE IF ~Truthy(ref.folder) \/ ref.line_numbers = None
                \/ The(ref.line_numbers) = <<>> \/ ~Truthy(text)
        THEN [raised |-> FALSE, reference |-> None]
        ELSE [raised |-> FALSE,
              reference |-> Some([target_folder_num |-> The(ref.folder),
                                  target_line_numbers |-> The(ref.line_numbers),
                                  text |-> text])]

\* the inner loop: one event line.  No reference or no text: next line.  A
\* list element int() rejects: ValueError leaves the program.  Otherwise the
\* target is looked up and one result appended.
ProcessLine ==
    /\ pc = "line"
    /\ IF line_idx > Len(CurrentLines)
       THEN /\ pc' = "file"
            /\ file_idx' = file_idx + 1
            /\ UNCHANGED <<line_idx, results, exit_code, accesses>>
       ELSE LET here == xref_reference(CurrentLines[line_idx])
            IN  IF here.raised
                THEN /\ pc' = "raised"
                     /\ exit_code' = Some(1)
                     /\ UNCHANGED <<file_idx, line_idx, results, accesses>>
                ELSE IF here.reference = None
                THEN /\ line_idx' = line_idx + 1
                     /\ UNCHANGED <<pc, file_idx, results, exit_code, accesses>>
                ELSE /\ results' = Append(results,
                             MatchResult(base_dir, folders_to_process[folder_idx],
                                         CurrentFiles[file_idx].name, line_idx,
                                         The(here.reference).target_folder_num,
                                         The(here.reference).target_line_numbers,
                                         The(here.reference).text,
                                         fuzzy_threshold))
                     /\ accesses' = accesses + 1
                     /\ line_idx' = line_idx + 1
                     /\ UNCHANGED <<pc, file_idx, exit_code>>
    /\ UNCHANGED <<base_dir, args_range, folders_to_process, folder_idx,
                   args_filter, args_fail, displayed>>
    /\ UNCHANGED <<classify_vars, fuzzy_threshold, locate_vars, call_vars, gui_vars, mux_vars>>

FilterTypes == {"all", "matched", "exact", "similar", "different", "not-found"}

\* main after process_files: the results are filtered by args.filter and
\* generate_report prints them
Report ==
    /\ pc = "report"
    /\ \E type \in FilterTypes :
           /\ args_filter' = Some(type)
           /\ displayed' = Some(IF type = "all" THEN results ELSE filter_results(results, type))
    /\ pc' = "fail_on_issues"
    /\ UNCHANGED <<base_dir, args_range, folders_to_process, folder_idx, file_idx,
                   line_idx, results, args_fail, exit_code, accesses>>
    /\ UNCHANGED <<classify_vars, fuzzy_threshold, locate_vars, call_vars, gui_vars, mux_vars>>

\* the exit status counting the results that were displayed, after the filter
exit_status_of_displayed(fail_on_issues, all_results, filtered_results) ==
    IF fail_on_issues
       /\ \E k \in 1..Len(filtered_results) :
              filtered_results[k].status \in {DIFFERENT, NOT_FOUND}
    THEN 1 ELSE 0

\* the exit status at the end of main: 1 under --fail-on-issues when
\* different_count > 0 or not_found_count > 0, both counted in all_results;
\* else main returns and the status is 0
exit_status(fail_on_issues, all_results, filtered_results) ==
    IF fail_on_issues
       /\ \E k \in 1..Len(all_results) : all_results[k].status \in {DIFFERENT, NOT_FOUND}
    THEN 1 ELSE 0

\* the end of main: with --fail-on-issues, exit 1 if any result is DIFFERENT or NOT FOUND
Exit ==
    /\ pc = "fail_on_issues"
    /\ \E flag \in BOOLEAN :
           /\ args_fail' = Some(flag)
           /\ exit_code' = Some(exit_status(flag, results, The(displayed)))
    /\ pc' = "exited"
    /\ UNCHANGED <<base_dir, args_range, folders_to_process, folder_idx, file_idx,
                   line_idx, results, args_filter, displayed, accesses>>
    /\ UNCHANGED <<classify_vars, fuzzy_threshold, locate_vars, call_vars, gui_vars, mux_vars>>

(***************************************************************************)
(* process_files as one call, the summary of generate_report, and the      *)
(* keyword mode of report.py.                                              *)
(***************************************************************************)
\* the body of the line loop of cross-reference.py's process_files for event
\* line k, here being what the line holds: a line that raises ends the run,
\* a line without reference or text is passed over, else one result is appended
xref_line_step(base, folder_name, file_name, k, threshold, here, acc) ==
    IF here.raised THEN [raised |-> TRUE, results |-> acc.results]
    ELSE IF here.reference = None THEN acc
    ELSE [raised |-> FALSE,
          results |-> Append(acc.results,
                             MatchResult(base, folder_name, file_name, k,
                                         The(here.reference).target_folder_num,
                                         The(here.reference).target_line_numbers,
                                         The(here.reference).text, threshold))]

\* the line loop of cross-reference.py's process_files from event line k of
\* one file on: the results so far, and whether a line raised
RECURSIVE xref_line_loop(_, _, _, _, _, _, _)
xref_line_loop(base, folder_name, file_name, event_lines, k, threshold, acc) ==
    IF acc.raised \/ k > Len(event_lines) THEN acc
    ELSE xref_line_loop(base, folder_name, file_name, event_lines, k + 1, threshold,
             xref_line_step(base, folder_name, file_name, k, threshold,
                            xref_reference(event_lines[k]), acc))

\* the file loop of cross-reference.py's process_files from file k of the listing on
RECURSIVE xref_file_loop(_, _, _, _, _, _)
xref_file_loop(base, folder_name, ass_files, k, threshold, acc) ==
    IF acc.raised \/ k > Len(ass_files) THEN acc
    ELSE xref_file_loop(base, folder_name, ass_files, k + 1, threshold,
             xref_line_loop(base, folder_name, ass_files[k].name,
                            get_event_lines(ass_files[k]), 1, threshold, acc))

\* the folder loop of cross-reference.py's process_files from folder k on
RECURSIVE xref_folder_loop(_, _, _, _, _)
xref_folder_loop(base, names, k, threshold, acc) ==
    IF acc.raised \/ k > Len(names) THEN acc
    ELSE IF ~exists(Child(base, names[k]))
         THEN xref_folder_loop(base, names, k + 1, threshold, acc)
    ELSE xref_folder_loop(base, names, k + 1, threshold,
             xref_file_loop(base, names[k], glob_ass(Child(base, names[k])), 1,
                            threshold, acc))

\* what a call of process_files that got past the test of the base path
\* comes to: raised, or the list returned
process_files_end(r) == [exited |-> None, raised |-> r.raised, results |-> r.results]

\* cross-reference.py: process_files(base_path, folder_range, fuzzy_threshold) as
\* one call: exited 1 for a missing base path, raised when a line raises,
\* else the list returned
process_files(base, folder_range, threshold) ==
    IF ~exists(base) THEN [exited |-> Some(1), raised |-> FALSE, results |-> <<>>]
    ELSE process_files_end(
             xref_folder_loop(base,
                 [k \in 1..Len(folder_range) |-> zfill(str(folder_range[k]), 2)],
                 1, threshold, [raised |-> FALSE, results |-> <<>>]))

\* sum(1 for r in rs if r["status"] == st)
CountStatus(rs, st) == Cardinality({k \in 1..Len(rs) : rs[k].status = st})

\* the summary with every count taken in the list that is displayed
print_summary_file_displayed(rs, all_results) ==
    [total |-> Len(rs),
     displayed |-> Len(rs),
     exact |-> CountStatus(rs, EXACT),
     similar |-> CountStatus(rs, SIMILAR),
     different |-> CountStatus(rs, DIFFERENT),
     not_found |-> CountStatus(rs, NOT_FOUND)]

\* cross-reference.py: the numbers print_summary_file and
\* print_summary_terminal print for the displayed and the whole list
print_summary_file(rs, all_results) ==
    [total |-> Len(all_results),
     displayed |-> Len(rs),
     exact |-> CountStatus(all_results, EXACT),
     similar |-> CountStatus(all_results, SIMILAR),
     different |-> CountStatus(all_results, DIFFERENT),
     not_found |-> CountStatus(all_results, NOT_FOUND)]

\* the names of the digit-named directories under base, sorted: folders with
\* names of two digits are enough for the trees of the bounded runs
NumberedNames ==
    [k \in 1..9 |-> <<"0", Digits[k + 1]>>]

\* report.py: sorted(f for f in base_dir.iterdir() if f.is_dir() and f.name.isdigit())
sorted_numbered(base) ==
    SelectSeq(NumberedNames,
              LAMBDA n : n \in DOMAIN base.entries /\ is_dir(base.entries[n]))

\* the dict report.py's process_files appends for line line_num of the
\* file, hit being what find_text_in_folder returned
ReportResult(folder_name, file_name, line_num, ref, hit) ==
    [folder |-> folder_name,
     file |-> file_name,
     line_num |-> line_num,
     pattern_type |-> ref.pattern_type,
     pattern_number |-> ref.pattern_number,
     text |-> Some(ref.search_text),
     target_file |-> hit.file,
     target_text |-> hit.text,
     target_line_num |-> hit.lines]

\* the body of the line loop of report.py's process_files for line k, ref
\* being the reference of the line, None for a line that is passed over
report_line_step(base, folder_name, file_name, k, ref, acc) ==
    IF ref = None THEN acc
    ELSE Append(acc,
                ReportResult(folder_name, file_name, k, The(ref),
                             report_find_text_in_folder(
                                 Child(base, The(ref).pattern_number),
                                 Some(The(ref).search_text))))

\* the line loop of report.py's process_files from line k of the file on
RECURSIVE report_line_loop(_, _, _, _, _, _)
report_line_loop(base, folder_name, file_name, lines, k, acc) ==
    IF k > Len(lines) THEN acc
    ELSE report_line_loop(base, folder_name, file_name, lines, k + 1,
             report_line_step(base, folder_name, file_name, k,
                              report_reference(lines[k]), acc))

\* the file loop of report.py's process_files from file k of the listing on
RECURSIVE report_file_loop(_, _, _, _, _)
report_file_loop(base, folder_name, ass_files, k, acc) ==
    IF k > Len(ass_files) THEN acc
    ELSE report_file_loop(base, folder_name, ass_files, k + 1,
             report_line_loop(base, folder_name, ass_files[k].name,
                              read_ass_file(ass_files[k]), 1, acc))

\* the folder loop of report.py's process_files from folder k on
RECURSIVE report_folder_loop(_, _, _, _)
report_folder_loop(base, names, k, acc) ==
    IF k > Len(names) THEN acc
    ELSE report_folder_loop(base, names, k + 1,
             report_file_loop(base, names[k], glob_ass(Child(base, names[k])), 1, acc))

\* report.py: process_files(base_path) as one call: exited 1 for a missing
\* base path, else the list returned
report_process_files(base) ==
    IF ~exists(base) THEN [exited |-> Some(1), results |-> <<>>]
    ELSE [exited |-> None,
          results |-> report_folder_loop(base, sorted_numbered(base), 1, <<>>)]

\* report.py: has_difference(result)
has_difference(result) ==
    IF ~Truthy(result.target_file) \/ ~Truthy(result.target_text) THEN FALSE
    ELSE normalize_text(result.text) # normalize_text(result.target_text)

\* report.py: the matched test of filter_results and of the summary
is_exact_match(result) ==
    Truthy(result.target_file)
        /\ normalize_text(result.text) = normalize_text(result.target_text)

\* report.py: filter_results(results, filter_type)
report_filter_results(rs, type) ==
    CASE type = "matched" -> SelectSeq(rs, is_exact_match)
      [] type = "not-found" -> SelectSeq(rs, LAMBDA r : ~Truthy(r.target_file))
      [] type = "different" -> SelectSeq(rs, has_difference)
      [] OTHER -> rs

\* report.py: the numbers print_summary_file and print_summary_terminal
\* print for the displayed and the whole list
report_print_summary_file(rs, all_results) ==
    LET found_count ==
            Cardinality({k \in 1..Len(all_results) : Truthy(all_results[k].target_file)})
    IN  [total |-> Len(all_results),
         displayed |-> Len(rs),
         found |-> found_count,
         not_found |-> Len(all_results) - found_count,
         exact_matches |-> Cardinality({k \in 1..Len(all_results) :
                                            is_exact_match(all_results[k])}),
         different |-> Cardinality({k \in 1..Len(all_results) :
                                        has_difference(all_results[k])})]

(***************************************************************************)
(* Inputs of the bounded specifications.                                   *)
(***************************************************************************)
\* characters of a dialogue text: the two characters of the line-break
\* marker \N, each of them an ordinary character when alone, and a space
TextChars == {"N", "\\", " "}

\* an optional str: None, or any text of at most MaxLen characters
Texts == {None} \cup {Some(t) : t \in SeqUpTo(TextChars, MaxLen)}

\* --threshold values: the lowest, one a score can equal, the default, the highest
Thresholds == {0, 50, 95, 100}

(***************************************************************************)
(* Idle values of the groups of variables: each specification runs one     *)
(* group and leaves the others idle.                                       *)
(***************************************************************************)
ClassifyIdle ==
    /\ text1 = None
    /\ text2 = None
    /\ status = None
    /\ similarity = None
    /\ cpc = "idle"

LocateIdle ==
    /\ target_folder = MissingPath
    /\ line_numbers = <<>>
    /\ search_text = None
    /\ found = NoMatch
    /\ lpc = "idle"

RunIdle ==
    /\ pc = "idle"
    /\ base_dir = MissingPath
    /\ args_range = <<>>
    /\ folders_to_process = <<>>
    /\ folder_idx = 0
    /\ file_idx = 0
    /\ line_idx = 0
    /\ results = <<>>
    /\ args_filter = None
    /\ args_fail = None
    /\ displayed = None
    /\ exit_code = None
    /\ accesses = 0

CallIdle ==
    /\ callee = "none"
    /\ args = <<>>
    /\ returned = None
    /\ call_pc = "idle"

GuiIdle ==
    /\ app_results = <<>>
    /\ resolved_items = {}
    /\ results_listbox = <<>>
    /\ curselection = None
    /\ last_event = "idle"

MuxIdle ==
    /\ config_value = None
    /\ config_episodes = None
    /\ episodes_path = FALSE
    /\ ep_idx = 0
    /\ attempted = <<>>
    /\ error_log = <<>>
    /\ work_dir = FALSE
    /\ mux_pc = "idle"

(***************************************************************************)
(* SpecClassify: one call of calculate_similarity and get_match_status on  *)
(* a pair of optional texts, as process_files makes them.                  *)
(***************************************************************************)
ClassifyInit ==
    /\ text1 \in Texts
    /\ text2 \in Texts
    /\ fuzzy_threshold \in Thresholds
    /\ status = None
    /\ similarity = None
    /\ cpc = "start"
    /\ LocateIdle
    /\ RunIdle
    /\ CallIdle
    /\ GuiIdle
    /\ MuxIdle

Classify ==
    /\ cpc = "start"
    /\ similarity' = Some(calculate_similarity(text1, text2))
    /\ status' = Some(get_match_status(text1, text2, fuzzy_threshold))
    /\ cpc' = "done"
    /\ UNCHANGED <<text1, text2, fuzzy_threshold, locate_vars, run_vars, call_vars, gui_vars, mux_vars>>

ClassifyNext == Classify

SpecClassify == ClassifyInit /\ [][ClassifyNext]_vars

(***************************************************************************)
(* SpecLocate: one call of find_text_in_folder, of cross-reference.py      *)
(* (explicit ordinals) or of report.py (free text), on one target folder.  *)
(***************************************************************************)
\* dialogue texts of the target lines: empty, a word, a longer word, two
\* words joined by a line-break marker, a lone line-break marker
LocTexts == {<<>>, <<"a">>, <<"a", "a">>, <<"a", "\\", "N", "a">>, <<"\\", "N">>}

\* lines of a target file: dialogue lines and a comment line
LocLines ==
    {DialoguePrefix \o FieldSeparator \o t : t \in LocTexts}
        \cup {CommentPrefix \o FieldSeparator \o <<"a">>}

\* kinds of directory entry: an .ass file that starts with "[Events]" and
\* "Format:", an .ass file without them, an .ass entry that cannot be read,
\* and a file of another type
WithHeader == <<"ass with header">>
Headless == <<"ass">>
Unreadable == <<"unreadable ass">>
OtherType == <<"txt">>
EntryKinds == {WithHeader, Headless, Unreadable, OtherType}

Digit == <<"1", "2", "3", "4", "5", "6", "7", "8", "9">>

NewEntry(kind, k) ==
    [name |-> <<Digit[k]>> \o (IF kind = OtherType THEN <<".", "t", "x", "t">> ELSE DotAss),
     readable |-> kind # Unreadable,
     lines |-> IF kind = WithHeader THEN <<EventsHeader, FormatPrefix>> ELSE <<>>]

\* the directory listing a sequence of entry kinds and lines describes: each
\* kind starts an entry, each line is appended to the entry before it
RECURSIVE Listing(_, _, _)
Listing(items, i, entries) ==
    IF i > Len(items) THEN entries
    ELSE IF items[i] \in EntryKinds
         THEN Listing(items, i + 1, Append(entries, NewEntry(items[i], Len(entries) + 1)))
         ELSE Listing(items, i + 1,
                      [entries EXCEPT ![Len(entries)].lines = Append(@, items[i])])

\* a description starts with an entry; an entry that cannot be read is given no lines
WellFormed(items) ==
    /\ items # <<>> => items[1] \in EntryKinds
    /\ \A i \in 2..Len(items) :
           items[i] \notin EntryKinds => items[i - 1] # Unreadable

Folders ==
    {MissingPath, RegularFile}
        \cup {Directory(Listing(items, 1, <<>>)) :
                 items \in {x \in SeqUpTo(EntryKinds \cup LocLines, MaxFolder) : WellFormed(x)}}

\* requested ordinals, as the tag grammar allows them: non-negative, not empty
LineNumberLists == {<<1>>, <<1, 2>>, <<2, 1>>, <<0, 1>>}

\* search texts: empty, a word, two words, a lone line-break marker
Queries == {Some(t) : t \in {<<>>, <<"a">>, <<"a", " ", "a">>, <<"\\", "N">>}}

LocateInit ==
    /\ target_folder \in Folders
    /\ \/ lpc = "explicit" /\ line_numbers \in LineNumberLists /\ search_text = None
       \/ lpc = "free" /\ line_numbers = <<>> /\ search_text \in Queries
    /\ found = NoMatch
    /\ ClassifyIdle
    /\ fuzzy_threshold = 95
    /\ RunIdle
    /\ CallIdle
    /\ GuiIdle
    /\ MuxIdle

LocateExplicit ==
    /\ lpc = "explicit"
    /\ found' = xref_find_text_in_folder(target_folder, line_numbers)
    /\ lpc' = "explicit done"
    /\ UNCHANGED <<target_folder, line_numbers, search_text,
                   classify_vars, fuzzy_threshold, run_vars, call_vars, gui_vars, mux_vars>>

LocateFreeText ==
    /\ lpc = "free"
    /\ IF report_find_text_in_folder_raises(target_folder, search_text)
       THEN found' = NoMatch /\ lpc' = "free raised"
       ELSE /\ found' = report_find_text_in_folder(target_folder, search_text)
            /\ lpc' = "free done"
    /\ UNCHANGED <<target_folder, line_numbers, search_text,
                   classify_vars, fuzzy_threshold, run_vars, call_vars, gui_vars, mux_vars>>

LocateNext == LocateExplicit \/ LocateFreeText

SpecLocate == LocateInit /\ [][LocateNext]_vars

LocateDone == lpc \in {"explicit done", "free done"}

\* the target folder holds no entry whose name ends in .ass
NoAssFiles(folder) == \A i \in 1..Len(folder.entries) : ~endswith(folder.entries[i].name, DotAss)

\* C6: both locators return None, None, None when the target folder does not
\* exist, is not a directory, or holds no .ass file.
C6_NoFolderNoMatch ==
    (LocateDone /\ (~exists(target_folder) \/ ~is_dir(target_folder) \/ NoAssFiles(target_folder)))
        => (found.file = None /\ found.text = None /\ found.lines = None)

\* a lookup done in a directory whose only entries are files of another type, with lines in them
C6_Witness ==
    /\ LocateDone
    /\ is_dir(target_folder)
    /\ NoAssFiles(target_folder)
    /\ \E i \in 1..Len(target_folder.entries) : Len(target_folder.entries[i].lines) >= 2
    /\ found = NoMatch

\* the event lines of a listed file, and the text of its n-th event line
EventLinesOf(file) == get_event_lines(file)
OrdinalText(file, n) ==
    IF 1 <= n /\ n <= Len(EventLinesOf(file))
    THEN extract_text_from_line(EventLinesOf(file)[n])
    ELSE None

\* the file has a non-empty text at every requested ordinal
YieldsAll(file, numbers) == \A k \in 1..Len(numbers) : Truthy(OrdinalText(file, numbers[k]))

\* C7 (as claimed): explicit lookup returns the first listed file that has a
\* non-empty text at every requested ordinal, with the space-joined texts of
\* all requested ordinals in request order; a file lacking one is not accepted.
C7_FirstFileWithAllOrdinals ==
    lpc = "explicit done" =>
        LET files == glob_ass(target_folder)
            good == {k \in 1..Len(files) : YieldsAll(files[k], line_numbers)}
        IN  IF good = {} THEN found = NoMatch
            ELSE LET k == CHOOSE x \in good : \A y \in good : x <= y
                 IN  /\ found.file = Some(files[k].name)
                     /\ found.text = Some(join([i \in 1..Len(line_numbers) |->
                                                   The(OrdinalText(files[k], line_numbers[i]))],
                                               <<" ">>))

\* positions (file, raw line number) of the candidate lines of the free-text
\* scan: the lines of the listed .ass files that hold "Dialogue:" and a non-empty text
CandidatePositions(files) ==
    {p \in (1..Len(files)) \X (1..MaxFolder + 2) :
        /\ p[2] <= Len(read_ass_file(files[p[1]]))
        /\ Contains(read_ass_file(files[p[1]])[p[2]], DialoguePrefix)
        /\ Truthy(extract_text_from_line(read_ass_file(files[p[1]])[p[2]]))}

CandidateText(files, p) == extract_text_from_line(read_ass_file(files[p[1]])[p[2]])

\* p is scanned before q
Before(p, q) == p[1] < q[1] \/ (p[1] = q[1] /\ p[2] < q[2])

\* the match the scan reports for the candidate at p
MatchAt(files, p) ==
    [file |-> Some(files[p[1]].name), text |-> CandidateText(files, p), lines |-> Some(p[2])]

ExactPositions(files, query) ==
    {p \in CandidatePositions(files) :
        normalize_text(CandidateText(files, p)) = normalize_text(query)}

\* C8: when some candidate line equals the query after normalization,
\* free-text lookup returns the first such line in file-listing then line
\* order, whatever containment candidate came before it.
C8_FirstExactMatch ==
    (lpc = "free done" /\ is_dir(target_folder)) =>
        LET files == glob_ass(target_folder)
            exact == ExactPositions(files, search_text)
        IN  exact # {} =>
                \E p \in exact :
                    /\ \A q \in exact : p = q \/ Before(p, q)
                    /\ found = MatchAt(files, p)

\* containment score of a candidate as a fraction <<numerator, denominator>>
Score(query, candidate) ==
    IF Contains(candidate, query) /\ candidate # <<>> THEN <<Len(query), Len(candidate)>>
    ELSE IF Contains(query, candidate) /\ query # <<>> THEN <<Len(candidate), Len(query)>>
    ELSE <<0, 1>>

Less(x, y) == x[1] * y[2] < y[1] * x[2]

\* an exact match returned although a containment candidate came before it
\* and another exact match comes after it
C8_Witness ==
    /\ lpc = "free done"
    /\ is_dir(target_folder)
    /\ LET files == glob_ass(target_folder)
           exact == ExactPositions(files, search_text)
       IN  \E p \in exact :
               /\ found = MatchAt(files, p)
               /\ \E q \in exact : Before(p, q)
               /\ \E c \in CandidatePositions(files) :
                      /\ Before(c, p)
                      /\ Less(<<0, 1>>, Score(normalize_text(search_text),
                                              normalize_text(CandidateText(files, c))))

\* C9: when no candidate equals the normalized query, free-text lookup
\* returns the candidate of maximum containment score, the earliest-scanned
\* of those with that score, and no match if no candidate has a positive score.
C9_BestContainment ==
    (lpc = "free done" /\ is_dir(target_folder)) =>
        LET files == glob_ass(target_folder)
            cands == CandidatePositions(files)
            query == normalize_text(search_text)
            score(p) == Score(query, normalize_text(CandidateText(files, p)))
            positive == {p \in cands : Less(<<0, 1>>, score(p))}
        IN  ExactPositions(files, search_text) = {} =>
                IF positive = {} THEN found = NoMatch
                ELSE \E p \in positive :
                         /\ \A q \in positive : ~Less(score(p), score(q))
                         /\ \A q \in positive : Before(q, p) => Less(score(q), score(p))
                         /\ found = MatchAt(files, p)

\* two candidates tie for the maximum positive score, a lower-scoring one
\* exists too, and the earlier of the two is returned
C9_Witness ==
    /\ lpc = "free done"
    /\ is_dir(target_folder)
    /\ LET files == glob_ass(target_folder)
           cands == CandidatePositions(files)
           query == normalize_text(search_text)
           score(p) == Score(query, normalize_text(CandidateText(files, p)))
       IN  /\ ExactPositions(files, search_text) = {}
           /\ \E p, q, r \in cands :
                  /\ Before(r, p) /\ Before(p, q)
                  /\ Less(<<0, 1>>, score(r)) /\ Less(score(r), score(p))
                  /\ score(p) = score(q)
                  /\ found = MatchAt(files, p)

\* C10 (as claimed): a search text that is empty, or whose normal form is
\* empty, never matches, whatever the target folder holds.
C10_EmptySearchNeverMatches ==
    (lpc = "free done" /\ normalize_text(search_text) = <<>>) => found = NoMatch

\* t2 is t1 with one line-break marker \N written as a space
BreakAsSpace(t1, t2) ==
    \E i \in 1..Len(t1) :
        /\ OccursAt(<<"\\", "N">>, t1, i)
        /\ t2 = Slice(t1, 1, i - 1) \o <<" ">> \o Slice(t1, i + 2, Len(t1))

\* t2 is t1 with one whitespace run made one space longer
LongerRun(t1, t2) ==
    \E i \in 1..Len(t1) :
        /\ t1[i] = " "
        /\ t2 = Slice(t1, 1, i) \o <<" ">> \o Slice(t1, i + 1, Len(t1))

\* C3: for non-empty source and target, get_match_status returns EXACT if and
\* only if the two normalized texts are equal; texts that differ only in a \N
\* marker written as a space, or in the length of a whitespace run, are EXACT.
C3_ExactIffNormalizedEqual ==
    (cpc = "done" /\ Truthy(text1) /\ Truthy(text2)) =>
        /\ (status = Some(EXACT)) <=> (normalize_text(text1) = normalize_text(text2))
        /\ (BreakAsSpace(The(text1), The(text2)) \/ BreakAsSpace(The(text2), The(text1))
              \/ LongerRun(The(text1), The(text2)) \/ LongerRun(The(text2), The(text1)))
             => status = Some(EXACT)

\* two different texts, one with a \N marker where the other has a space, classified EXACT
C3_Witness ==
    /\ cpc = "done"
    /\ Truthy(text1) /\ Truthy(text2)
    /\ text1 # text2
    /\ BreakAsSpace(The(text1), The(text2))
    /\ normalize_text(text1) # <<>>
    /\ status = Some(EXACT)

\* C4: the decision order is NOT FOUND, EXACT, SIMILAR, DIFFERENT: a missing or
\* empty text gives NOT FOUND; otherwise equal normal forms give EXACT whatever
\* the threshold; otherwise the status is SIMILAR exactly when the similarity is
\* at least the threshold and DIFFERENT when it is below it.
C4_DecisionOrder ==
    cpc = "done" =>
        IF ~Truthy(text1) \/ ~Truthy(text2) THEN status = Some(NOT_FOUND)
        ELSE IF normalize_text(text1) = normalize_text(text2) THEN status = Some(EXACT)
        ELSE /\ status \in {Some(SIMILAR), Some(DIFFERENT)}
             /\ (status = Some(SIMILAR)) <=> AtLeast(The(similarity), fuzzy_threshold)

\* a pair with different normal forms whose similarity equals the threshold, classified SIMILAR
C4_Witness ==
    /\ cpc = "done"
    /\ Truthy(text1) /\ Truthy(text2)
    /\ normalize_text(text1) # normalize_text(text2)
    /\ fuzzy_threshold = 50
    /\ The(similarity).num = fuzzy_threshold * The(similarity).den
    /\ status = Some(SIMILAR)

(***************************************************************************)
(* Spec: a run of cross-reference.py on a tree with two episode folders,   *)
(* 01 holding lines with references and 02 holding the lines referred to.  *)
(***************************************************************************)
Tag(folder, list) == <<"C", "R", "-">> \o folder \o <<"-", "[">> \o list \o <<"]">>
RefLine(tag, text) == DialoguePrefix \o tag \o FieldSeparator \o text
Header == <<EventsHeader, FormatPrefix>>

\* files of folder 01: references to line 1 and to lines 1 and 2 of folder
\* 02 around a line without reference; a reference to the missing folder 03, a
\* reference on a line without text and one to line 2; a list int() rejects
SourceFiles ==
    << Header \o << RefLine(Tag(<<"2">>, <<"1">>), <<"a">>),
                   DialoguePrefix \o FieldSeparator \o <<"a">>,
                   RefLine(Tag(<<"0", "2">>, <<"1", ",", " ", "2">>), <<"a", " ", "a">>) >>,
      Header \o << RefLine(Tag(<<"3">>, <<"1">>), <<"a">>),
                   DialoguePrefix \o Tag(<<"2">>, <<"1">>),
                   RefLine(Tag(<<"2">>, <<"2">>), <<"a">>) >>,
      Header \o << RefLine(Tag(<<"2">>, <<"1">>), <<"a">>),
                   RefLine(Tag(<<"2">>, <<",">>), <<"a">>),
                   RefLine(Tag(<<"2">>, <<"1">>), <<"a">>) >> >>

\* files of folder 02: two event lines with the same text; one line with a
\* line-break marker; one line without text; a line that refers back to
\* line 1 of folder 01
TargetFiles ==
    << Header \o << DialoguePrefix \o FieldSeparator \o <<"a">>,
                   CommentPrefix \o FieldSeparator \o <<"a">> >>,
      Header \o << DialoguePrefix \o FieldSeparator \o <<"a", "\\", "N", "a">> >>,
      Header \o << DialoguePrefix \o <<"a">> >>,
      Header \o << RefLine(Tag(<<"1">>, <<"1">>), <<"a">>) >> >>

\* a missing folder, or a directory of at most MaxFiles of the files in
\* their order, named 1.ass, 2.ass, ...
FoldersOf(files) ==
    {MissingPath}
        \cup {Directory([k \in 1..Len(ix) |->
                            [name |-> <<Digit[k]>> \o DotAss, readable |-> TRUE,
                             lines |-> files[ix[k]]]]) :
                 ix \in {s \in SeqUpTo(1..Len(files), MaxFiles) :
                            \A k \in 1..Len(s) - 1 : s[k] < s[k + 1]}}

BaseDirs ==
    {MissingPath}
        \cup {[kind |-> "dir", entries |-> (<<"0", "1">> :> src) @@ (<<"0", "2">> :> tgt)] :
                 src \in FoldersOf(SourceFiles), tgt \in FoldersOf(TargetFiles)}

\* --threshold: below the range, its ends, inside it, above it
RunThresholds == {-1, 0, 50, 100, 101}

\* the range argument: one folder, or two
Ranges == {<<"1">>, <<"1", "-", "2">>}

Init ==
    /\ pc = "main"
    /\ base_dir \in BaseDirs
    /\ args_range \in Ranges
    /\ fuzzy_threshold \in RunThresholds
    /\ folders_to_process = <<>>
    /\ folder_idx = 0
    /\ file_idx = 0
    /\ line_idx = 0
    /\ results = <<>>
    /\ args_filter = None
    /\ args_fail = None
    /\ displayed = None
    /\ exit_code = None
    /\ accesses = 0
    /\ ClassifyIdle
    /\ LocateIdle
    /\ CallIdle
    /\ GuiIdle
    /\ MuxIdle

Next ==
    \/ Main
    \/ StartProcessFiles
    \/ NextFolder
    \/ NextFile
    \/ ProcessLine
    \/ Report
    \/ Exit

Spec == Init /\ [][Next]_vars

\* the results appended so far
Results == {results[k] : k \in 1..Len(results)}

\* the source line of a result: event line line_num of file "file" of folder "folder"
SourceLine(r) ==
    LET files == glob_ass(Child(base_dir, r.folder))
        k == CHOOSE i \in 1..Len(files) : files[i].name = r.file
    IN  get_event_lines(files[k])[r.line_num]

\* a target was located for the reference of r: some listed .ass file of
\* the folder the tag names has a non-empty text at one of the tag's ordinals
TargetLocated(r) ==
    LET ref == find_cross_reference_pattern(SourceLine(r))
        files == glob_ass(Child(base_dir, The(ref.folder)))
    IN  \E i \in 1..Len(files) :
            \E k \in 1..Len(The(ref.line_numbers)) :
                Truthy(OrdinalText(files[i], The(ref.line_numbers)[k]))

\* C1: in every result process_files appends, the status is NOT FOUND exactly
\* when no target was located, which is exactly when target_file and
\* target_text are None, and the similarity is set exactly when one was located.
C1_NotFoundIffNoTarget ==
    \A r \in Results :
        /\ (r.status = NOT_FOUND) <=> ~TargetLocated(r)
        /\ (r.target_file = None /\ r.target_text = None) <=> ~TargetLocated(r)
        /\ (r.similarity # None) <=> TargetLocated(r)

\* a run that appended a NOT FOUND result for a folder that exists, and a result with a located target
C1_Witness ==
    /\ \E r \in Results :
           /\ r.status = NOT_FOUND
           /\ exists(Child(base_dir, The(r.target_folder)))
           /\ r.similarity = None
    /\ \E r \in Results :
           /\ r.status = DIFFERENT
           /\ r.similarity # None
           /\ r.target_file # None

\* C2 (as claimed): the four target fields of a result are set if and only
\* if a target was located; in a NOT FOUND result all four are absent.
C2_AllTargetFieldsIffLocated ==
    \A r \in Results :
        IF TargetLocated(r)
        THEN /\ r.target_folder # None /\ r.target_file # None
             /\ r.target_line_numbers # None /\ r.target_text # None
        ELSE /\ r.target_folder = None /\ r.target_file = None
             /\ r.target_line_numbers = None /\ r.target_text = None

\* C2 (amended): target_file and target_text are set if and only if a target
\* was located, and are both None in a NOT FOUND result; target_folder and
\* target_line_numbers are set in every result, to the folder and the
\* ordinals of the reference tag.
C2_FileAndTextIffLocated ==
    \A r \in Results :
        /\ IF TargetLocated(r)
           THEN r.target_file # None /\ r.target_text # None
           ELSE r.target_file = None /\ r.target_text = None
        /\ r.status = NOT_FOUND => (r.target_file = None /\ r.target_text = None)
        /\ r.target_folder = find_cross_reference_pattern(SourceLine(r)).folder
        /\ r.target_line_numbers = find_cross_reference_pattern(SourceLine(r)).line_numbers
        /\ r.target_folder # None /\ r.target_line_numbers # None

\* a NOT FOUND result whose target folder does not exist, still naming that folder and the ordinals
C2_Witness ==
    \E r \in Results :
        /\ r.status = NOT_FOUND
        /\ ~exists(Child(base_dir, The(r.target_folder)))
        /\ r.target_folder = Some(<<"0", "3">>)
        /\ r.target_line_numbers = Some(<<1>>)
        /\ r.target_file = None /\ r.target_text = None

\* C5: a threshold outside [0, 100] ends the run with exit status 1 before
\* any folder or file is looked at, any result made or any report printed;
\* a threshold inside the range, 0 and 100 included, is not rejected: the
\* run goes on to look at the base path.
C5_ThresholdRejectedFirst ==
    pc # "main" =>
        IF fuzzy_threshold < 0 \/ fuzzy_threshold > 100
        THEN /\ pc = "exited"
             /\ exit_code = Some(1)
             /\ accesses = 0
             /\ results = <<>>
             /\ displayed = None
        ELSE pc = "process_files" \/ accesses >= 1

\* a run rejected for its threshold although the tree holds a reference to resolve
C5_Witness ==
    /\ pc = "exited"
    /\ fuzzy_threshold = 101
    /\ exit_code = Some(1)
    /\ exists(base_dir)
    /\ exists(Child(base_dir, <<"0", "1">>))
    /\ Len(glob_ass(Child(base_dir, <<"0", "1">>))) >= 1
    /\ accesses = 0

(***************************************************************************)
(* SpecCalls: one call of one of the functions the tools are built from,   *)
(* on an argument drawn from a bounded set.                                *)
(***************************************************************************)
\* longest file, in lines, given to get_event_lines
MaxLines == 4

\* lines of a subtitle file: the header of the event section, the format
\* declaration, a dialogue and a comment line, the header of another
\* section, and a dialogue line whose text is "[Events]"
OtherHeader == <<"[", "F", "o", "n", "t", "s", "]">>
FileLines ==
    {EventsHeader, FormatPrefix, OtherHeader,
     DialoguePrefix \o FieldSeparator \o <<"a">>,
     CommentPrefix \o FieldSeparator \o <<"a">>,
     DialoguePrefix \o FieldSeparator \o EventsHeader}

\* a readable file 1.ass with the given lines
FileOf(lines) == [name |-> <<"1">> \o DotAss, readable |-> TRUE, lines |-> lines]

CallGetEventLines ==
    /\ call_pc = "call"
    /\ callee = "get_event_lines"
    /\ returned' = Some(get_event_lines(args))
    /\ call_pc' = "return"
    /\ UNCHANGED <<callee, args, classify_vars, fuzzy_threshold, locate_vars, run_vars, gui_vars, mux_vars>>

(***************************************************************************)
(* read_ass_file on the bytes of a file.  A byte below 0x80 is written as  *)
(* the character it encodes, a byte from 0x80 on as its two hex digits.  A *)
(* decoded character outside ASCII is written "U+00XX" when it is the      *)
(* Latin-1 character of byte XX, and "utf8:XXYYZZ" when it is the          *)
(* character of the three-byte UTF-8 sequence XX YY ZZ.  The directory     *)
(* entries of the file system above are what this reading makes of a file: *)
(* readable when some encoding reads it, with the lines it gives.          *)
(***************************************************************************)
\* the list with latin-1, which decodes every byte, tried first
encodings_latin_first == <<"latin-1", "utf-8-sig", "utf-8", "cp1252">>

\* read_ass_file: encodings
encodings == <<"utf-8-sig", "utf-8", "latin-1", "cp1252">>

HighBytes == {"EF", "BB", "BF", "81"}
ContinuationBytes == {"BB", "BF", "81"}
ByteOrderMark == <<"EF", "BB", "BF">>

\* the UTF-8 decoding of bytes[i..], None if it raises UnicodeDecodeError:
\* EF starts a three-byte sequence and needs two continuation bytes; a
\* continuation byte cannot start a character
RECURSIVE DecodeUtf8(_, _)
DecodeUtf8(bytes, i) ==
    IF i > Len(bytes) THEN Some(<<>>)
    ELSE IF bytes[i] \notin HighBytes
         THEN LET rest == DecodeUtf8(bytes, i + 1)
              IN  IF rest = None THEN None ELSE Some(<<bytes[i]>> \o The(rest))
    ELSE IF /\ bytes[i] = "EF"
            /\ i + 2 <= Len(bytes)
            /\ bytes[i + 1] \in ContinuationBytes
            /\ bytes[i + 2] \in ContinuationBytes
         THEN LET rest == DecodeUtf8(bytes, i + 3)
              IN  IF rest = None THEN None
                  ELSE Some(<<"utf8:" \o bytes[i] \o bytes[i + 1] \o bytes[i + 2]>> \o The(rest))
    ELSE None

\* bytes.decode(encoding), None if it raises
decode(bytes, encoding) ==
    CASE encoding = "utf-8-sig" ->
             IF startswith(bytes, ByteOrderMark) THEN DecodeUtf8(bytes, 4) ELSE DecodeUtf8(bytes, 1)
      [] encoding = "utf-8" -> DecodeUtf8(bytes, 1)
      [] encoding = "latin-1" ->
             Some([i \in 1..Len(bytes) |->
                      IF bytes[i] \in HighBytes THEN "U+00" \o bytes[i] ELSE bytes[i]])
      [] encoding = "cp1252" ->
             \* 0x81 is not assigned; EF, BB, BF are the characters Latin-1 has there
             IF \E i \in 1..Len(bytes) : bytes[i] = "81" THEN None
             ELSE Some([i \in 1..Len(bytes) |->
                           IF bytes[i] \in HighBytes THEN "U+00" \o bytes[i] ELSE bytes[i]])

\* f.readlines(): the text cut after every "\n", each line keeping its line end
RECURSIVE readlines(_, _, _)
readlines(text, i, cur) ==
    IF i > Len(text) THEN (IF cur = <<>> THEN <<>> ELSE <<cur>>)
    ELSE IF text[i] = "\n" THEN <<Append(cur, "\n")>> \o readlines(text, i + 1, <<>>)
    ELSE readlines(text, i + 1, Append(cur, text[i]))

\* the body of the try block for one encoding: open the file and read its
\* lines; None when open() or the decoding raises
open_and_readlines(file, encoding) ==
    IF ~file.opens \/ decode(file.bytes, encoding) = None THEN None
    ELSE Some(readlines(The(decode(file.bytes, encoding)), 1, <<>>))

\* the loop of read_ass_file from the k-th encoding on, and the return [] after it
RECURSIVE TryEncodings(_, _)
TryEncodings(file, k) ==
    IF k > Len(encodings) THEN <<>>
    ELSE IF open_and_readlines(file, encodings[k]) # None
         THEN The(open_and_readlines(file, encodings[k]))
         ELSE TryEncodings(file, k + 1)

\* a line without its line end
chomp(line) == IF line # <<>> /\ line[Len(line)] = "\n" THEN SubSeq(line, 1, Len(line) - 1) ELSE line

\* the directory entry of a file: readable when some encoding reads it
Stored(name, file) ==
    [name |-> name,
     readable |-> \E k \in 1..Len(encodings) : open_and_readlines(file, encodings[k]) # None,
     lines |-> [i \in 1..Len(TryEncodings(file, 1)) |-> chomp(TryEncodings(file, 1)[i])]]

\* most bytes put in front of the fixed content of a file
MaxBytes == 3

\* bytes put in front: a letter, a line end, the bytes of a byte order mark,
\* and 0x81, which only latin-1 decodes
FrontBytes == {"a", "\n", "EF", "BB", "BF", "81"}

\* the content: an event section with one dialogue line
Content ==
    EventsHeader \o <<"\n">> \o FormatPrefix \o <<"\n">>
        \o DialoguePrefix \o FieldSeparator \o <<"a", "\n">>

\* files: one that open() rejects (no permission, a directory named like a
\* file) or accepts, holding some bytes and then the content
RawFiles ==
    {[opens |-> o, bytes |-> front \o Content] :
        o \in BOOLEAN, front \in SeqUpTo(FrontBytes, MaxBytes)}

CallReadAssFile ==
    /\ call_pc = "call"
    /\ callee = "read_ass_file"
    /\ returned' = Some(TryEncodings(args, 1))
    /\ call_pc' = "return"
    /\ UNCHANGED <<callee, args, classify_vars, fuzzy_threshold, locate_vars, run_vars, gui_vars, mux_vars>>

\* most elements of the bracket list of a tag
MaxOrdinals == 2

\* a line given to find_cross_reference_pattern, as its parts: what precedes
\* the tag, the digits of the folder, the elements of the list, what follows;
\* without folder digits the line is what precedes, and holds no tag
LineOf(parts) ==
    IF parts.folder = <<>> THEN parts.pre
    ELSE parts.pre
           \o Tag(parts.folder, join([k \in 1..Len(parts.elems) |-> parts.elems[k].text], <<",">>))
           \o parts.post

\* list elements as written, with blanks around the digits, and their values
ListElements ==
    {[text |-> <<"1">>, value |-> 1], [text |-> <<" ", "2">>, value |-> 2],
     [text |-> <<"1", "0", " ">>, value |-> 10], [text |-> <<"0">>, value |-> 0]}

\* before the tag: nothing, a word, the start of a tag, a tag with an empty list
BeforeTag == {<<>>, <<"x", " ">>, <<"C", "R", "-">>, Tag(<<"1">>, <<>>) \o <<" ">>}

\* after the tag: nothing, the text field, a second tag
AfterTag == {<<>>, FieldSeparator \o <<"a">>, <<" ">> \o Tag(<<"9">>, <<"9">>)}

FolderDigits == {<<"3">>, <<"0", "3">>, <<"1", "2">>, <<"1", "2", "3">>}

TaggedLines ==
    {[pre |-> p, folder |-> f, elems |-> es, post |-> q] :
        p \in BeforeTag, f \in FolderDigits,
        es \in SeqUpTo(ListElements, MaxOrdinals) \ {<<>>}, q \in AfterTag}

\* lines without a tag: no dash, lower case, no folder, a letter in the
\* list, an empty list, no closing bracket
UntaggedLines ==
    {[pre |-> l, folder |-> <<>>, elems |-> <<>>, post |-> <<>>] :
        l \in {<<>>, <<"a">>, <<"C", "R", "-", "1", "[", "1", "]">>,
               <<"c", "r", "-", "1", "-", "[", "1", "]">>,
               <<"C", "R", "-", "-", "[", "1", "]">>,
               <<"C", "R", "-", "1", "-", "[", "a", "]">>,
               Tag(<<"1">>, <<>>),
               <<"C", "R", "-", "1", "-", "[", "1">>}}

CallFindCrossReferencePattern ==
    /\ call_pc = "call"
    /\ callee = "find_cross_reference_pattern"
    /\ returned' = Some(find_cross_reference_pattern(LineOf(args)))
    /\ call_pc' = "return"
    /\ UNCHANGED <<callee, args, classify_vars, fuzzy_threshold, locate_vars, run_vars, gui_vars, mux_vars>>

\* most digits of the number after a keyword
MaxDigits == 4

\* a dialogue line given to report.py, as its parts: the text before the
\* keyword, the keyword as written and in lower case, the blanks, the digits
\* and the text after them
KeywordLineOf(parts) ==
    DialoguePrefix \o FieldSeparator
        \o parts.pre \o parts.keyword \o parts.blanks \o parts.digits \o parts.post

KeywordsWritten ==
    {[text |-> <<"r", "e", "p", "l", "a", "y">>, lower |-> <<"r", "e", "p", "l", "a", "y">>],
     [text |-> <<"R", "e", "P", "L", "A", "y">>, lower |-> <<"r", "e", "p", "l", "a", "y">>],
     [text |-> <<"P", "r", "e", "v", "i", "e", "w">>, lower |-> <<"p", "r", "e", "v", "i", "e", "w">>]}

KeywordLines ==
    {[pre |-> p, keyword |-> k.text, type |-> k.lower, blanks |-> b, digits |-> d, post |-> q] :
        p \in {<<>>, <<"s", "e", "e", " ">>},
        k \in KeywordsWritten,
        b \in {<<>>, <<" ">>, <<" ", "\t">>},
        d \in {SubSeq(<<"1", "2", "3", "4", "5", "6">>, 1, n) : n \in 0..MaxDigits} \cup {<<"7">>},
        q \in {<<>>, <<" ", "x">>}}

CallReportReference ==
    /\ call_pc = "call"
    /\ callee = "find_pattern_in_line"
    /\ returned' = report_reference(KeywordLineOf(args))
    /\ call_pc' = "return"
    /\ UNCHANGED <<callee, args, classify_vars, fuzzy_threshold, locate_vars, run_vars, gui_vars, mux_vars>>

\* longest rest of a line after its tag
MaxLine == 6

\* event lines of cross-reference.py: a tag, then any text of separators,
\* letters and blanks
LinesAfterTag ==
    {DialoguePrefix \o Tag(<<"2">>, <<"1">>) \o rest : rest \in SeqUpTo({",", "a", " "}, MaxLine)}

CallExtractText ==
    /\ call_pc = "call"
    /\ callee = "extract_text_from_line"
    /\ returned' = xref_reference(args).reference
    /\ call_pc' = "return"
    /\ UNCHANGED <<callee, args, classify_vars, fuzzy_threshold, locate_vars, run_vars, gui_vars, mux_vars>>

\* pairs of texts given to calculate_similarity: words of three letters
WordChars == {"a", "b", "c"}
WordPairs == {<<Some(a), Some(b)>> : a, b \in SeqUpTo(WordChars, MaxLen)}

CallCalculateSimilarity ==
    /\ call_pc = "call"
    /\ callee = "calculate_similarity"
    /\ returned' = Some(calculate_similarity(args[1], args[2]))
    /\ call_pc' = "return"
    /\ UNCHANGED <<callee, args, classify_vars, fuzzy_threshold, locate_vars, run_vars, gui_vars, mux_vars>>

\* texts given to normalize_text: None, or letters, the two characters of
\* the marker \N, blanks and tabs
NormChars == {"a", "N", "\\", " ", "\t"}
NormTexts == {None} \cup {Some(t) : t \in SeqUpTo(NormChars, MaxLen + 2)}

CallNormalizeText ==
    /\ call_pc = "call"
    /\ callee = "normalize_text"
    /\ returned' = Some(normalize_text(args))
    /\ call_pc' = "return"
    /\ UNCHANGED <<callee, args, classify_vars, fuzzy_threshold, locate_vars, run_vars, gui_vars, mux_vars>>

\* a dialogue line whose text ends with a keyword reference
KeywordRef(text, k, number) ==
    DialoguePrefix \o FieldSeparator \o text \o <<" ">> \o Keywords[k] \o <<" ">> \o number

\* files of folder 01 of a tree report.py reads: after a header, references
\* to folder 02 by either keyword and one to the missing folder 03; without
\* header, a reference whose text no line of folder 02 holds, a comment line
\* and a dialogue line without text
KeywordSourceFiles ==
    << Header \o << KeywordRef(<<"a">>, 1, <<"2">>),
                   KeywordRef(<<"b">>, 2, <<"0", "2">>),
                   KeywordRef(<<"a">>, 1, <<"3">>) >>,
       << KeywordRef(<<"c">>, 1, <<"2">>),
          CommentPrefix \o FieldSeparator \o <<"a", " ">> \o Keywords[1] \o <<" ", "2">>,
          DialoguePrefix \o Keywords[1] \o <<" ", "2">> >>,
       << DialoguePrefix \o FieldSeparator \o <<"a">>,
          KeywordRef(<<"a">>, 1, <<"2">>) >> >>

\* files of folder 02: the text of the first reference as it is; the text
\* of the second inside a longer one; a text no reference has
KeywordTargetFiles ==
    << Header \o << KeywordRef(<<"a">>, 1, <<"2">>) >>,
       << DialoguePrefix \o FieldSeparator \o <<"z">>,
          KeywordRef(<<"b">>, 2, <<"0", "2">>) \o <<" ", "x">> >>,
       << DialoguePrefix \o FieldSeparator \o <<"z">> >> >>

KeywordBaseDirs ==
    {MissingPath}
        \cup {[kind |-> "dir", entries |-> (<<"0", "1">> :> src) @@ (<<"0", "2">> :> tgt)] :
                 src \in (FoldersOf(KeywordSourceFiles) \ {MissingPath}),
                 tgt \in FoldersOf(KeywordTargetFiles)}

\* the filters of report.py: none, --matched, --not-found, --different
KeywordFilters == {"all", "matched", "not-found", "different"}

\* the command lines of the two tools
ReportRuns ==
    {[tool |-> "cross-reference.py", path |-> b, range |-> <<"1", "-", "2">>,
      threshold |-> t, filter |-> f] :
        b \in BaseDirs, t \in {0, 50, 100}, f \in FilterTypes}
    \cup {[tool |-> "report.py", path |-> b, range |-> <<>>, threshold |-> 0, filter |-> f] :
             b \in KeywordBaseDirs, f \in KeywordFilters}

\* what generate_report was given and the numbers of the summary it printed
xref_generate_report(rs, all_results) ==
    Some([all_results |-> all_results,
          results |-> rs,
          summary |-> print_summary_file(rs, all_results)])
report_generate_report(rs, all_results) ==
    Some([all_results |-> all_results,
          results |-> rs,
          summary |-> report_print_summary_file(rs, all_results)])

\* main of cross-reference.py after process_files, run being what the call
\* came to: None when it did not return, else the report on the filtered list
xref_main(run, type) ==
    IF run.exited # None \/ run.raised THEN None
    ELSE xref_generate_report(
             IF type = "all" THEN run.results ELSE filter_results(run.results, type),
             run.results)

\* main of report.py after process_files
report_main(run, type) ==
    IF run.exited # None THEN None
    ELSE report_generate_report(report_filter_results(run.results, type), run.results)

\* main of either tool from process_files to the end of generate_report:
\* None when process_files did not return, else the two lists generate_report
\* was given and the numbers of the summary it printed
CallGenerateReport ==
    /\ call_pc = "call"
    /\ callee = "generate_report"
    /\ returned' =
          IF args.tool = "cross-reference.py"
          THEN xref_main(process_files(args.path, The(parse_range(args.range)),
                                       args.threshold),
                         args.filter)
          ELSE report_main(report_process_files(args.path), args.filter)
    /\ call_pc' = "return"
    /\ UNCHANGED <<callee, args, classify_vars, fuzzy_threshold, locate_vars, run_vars,
                   gui_vars, mux_vars>>

CallsInit ==
    /\ call_pc = "call"
    /\ returned = None
    /\ \/ callee = "read_ass_file" /\ args \in RawFiles
       \/ callee = "generate_report" /\ args \in ReportRuns
       \/ callee = "calculate_similarity" /\ args \in WordPairs
       \/ callee = "normalize_text" /\ args \in NormTexts
       \/ callee = "extract_text_from_line" /\ args \in LinesAfterTag
       \/ callee = "find_pattern_in_line" /\ args \in KeywordLines
       \/ callee = "find_cross_reference_pattern" /\ args \in TaggedLines \cup UntaggedLines
       \/ callee = "get_event_lines" /\ args \in {FileOf(ls) : ls \in SeqUpTo(FileLines, MaxLines)}
    /\ ClassifyIdle
    /\ fuzzy_threshold = 95
    /\ LocateIdle
    /\ RunIdle
    /\ GuiIdle
    /\ MuxIdle

CallsNext ==
    \/ CallGenerateReport
    \/ CallCalculateSimilarity
    \/ CallNormalizeText
    \/ CallExtractText
    \/ CallReportReference
    \/ CallFindCrossReferencePattern
    \/ CallReadAssFile
    \/ CallGetEventLines

SpecCalls == CallsInit /\ [][CallsNext]_vars

\* C11 (as claimed): get_event_lines returns, in file order, exactly the lines
\* that start with "Dialogue:" or "Comment:", come after a "Format:" line that
\* itself comes after the "[Events]" header, and lie inside the event
\* section, that is before the header of any later section.
IsSectionHeader(line) == startswith(line, <<"[">>)
IsEventsHeader(line) == startswith(line, EventsHeader)
IsEventLine(line) == startswith(line, DialoguePrefix) \/ startswith(line, CommentPrefix)

\* line i lies in the event section: an "[Events]" header precedes it with no section header since
InEventSection(lines, i) ==
    \E h \in 1..(i - 1) :
        /\ IsEventsHeader(lines[h])
        /\ \A j \in (h + 1)..i : ~IsSectionHeader(lines[j])

\* a "Format:" line precedes line i, and an "[Events]" header precedes that line
AfterFormat(lines, i) ==
    \E f \in 1..(i - 1) :
        /\ startswith(lines[f], FormatPrefix)
        /\ \E h \in 1..(f - 1) : IsEventsHeader(lines[h])

\* the lines at the positions of keep, in order
RECURSIVE LinesAt(_, _, _)
LinesAt(lines, keep, i) ==
    IF i > Len(lines) THEN <<>>
    ELSE (IF i \in keep THEN <<lines[i]>> ELSE <<>>) \o LinesAt(lines, keep, i + 1)

C11_EventLinesOfEventSection ==
    (callee = "get_event_lines" /\ call_pc = "return") =>
        LET lines == args.lines
            keep == {i \in 1..Len(lines) :
                        /\ IsEventLine(lines[i])
                        /\ AfterFormat(lines, i)
                        /\ InEventSection(lines, i)}
        IN  returned = Some(LinesAt(lines, keep, 1))

\* the encoding the k-th attempt uses
AttemptOrder == <<"utf-8-sig", "utf-8", "latin-1", "cp1252">>

\* C12: read_ass_file returns the lines read under the first of utf-8-sig,
\* utf-8, latin-1, cp1252 whose open-and-read does not raise, and the empty
\* list when all four raise; a folder whose only file is one that no attempt
\* reads gives no match to an explicit and to a free-text lookup.
C12_FirstEncodingThatReads ==
    (callee = "read_ass_file" /\ call_pc = "return") =>
        LET reads == {k \in 1..4 : open_and_readlines(args, AttemptOrder[k]) # None}
            folder == Directory(<<Stored(<<"1">> \o DotAss, args)>>)
        IN  IF reads = {}
            THEN /\ returned = Some(<<>>)
                 /\ \A ns \in LineNumberLists : xref_find_text_in_folder(folder, ns) = NoMatch
                 /\ \A q \in Queries : report_find_text_in_folder(folder, q) = NoMatch
            ELSE returned = open_and_readlines(args,
                                AttemptOrder[CHOOSE k \in reads : \A j \in reads : k <= j])

\* a file holding an event section with a dialogue line that open() rejects
\* under every encoding: no lines are returned and nothing raised
C12_Witness ==
    /\ callee = "read_ass_file"
    /\ call_pc = "return"
    /\ ~args.opens
    /\ args.bytes = Content
    /\ returned = Some(<<>>)
    /\ xref_find_text_in_folder(Directory(<<Stored(<<"1">> \o DotAss, args)>>), <<1>>) = NoMatch
    /\ xref_find_text_in_folder(
           Directory(<<Stored(<<"1">> \o DotAss, [args EXCEPT !.opens = TRUE])>>), <<1>>) # NoMatch

\* the line holds a tag whose bracket list has an element that is no integer
\* (an empty element, or blanks only), as in CR-03-[,] and CR-03-[ ]
UnparsablePayload(line) ==
    /\ SearchTag(line) # None
    /\ LET xs == split(The(SearchTag(line)).list, <<",">>)
       IN  \E k \in 1..Len(xs) : int(xs[k]) = None

\* C13 (as claimed): a line whose reference tag has an unparsable payload is
\* silently skipped: the step that processes it appends no result and goes on
\* to the next line of the file.
C13_MalformedTagSkipped ==
    [][(/\ pc = "line"
        /\ line_idx <= Len(CurrentLines)
        /\ UnparsablePayload(CurrentLines[line_idx]))
           => (/\ pc' = "line"
               /\ line_idx' = line_idx + 1
               /\ results' = results
               /\ exit_code' = None)]_vars

\* a file with two event lines, of texts a and aa
TwoLines ==
    FileOf(Header \o <<DialoguePrefix \o FieldSeparator \o <<"a">>,
                       DialoguePrefix \o FieldSeparator \o <<"a", "a">>>>)

\* C14: on a line with a tag CR-<digits>-[n1,n2,...], explicit-reference
\* extraction returns the folder digits padded with zeros to two digits at
\* least and the integers of the list in tag order, blanks around them
\* ignored, whatever precedes the tag and whatever follows it, a second tag
\* included; each integer n names the n-th event line of a file, counted
\* from 1; a line without tag gives None, None.
C14_TagFolderAndOrdinals ==
    (callee = "find_cross_reference_pattern" /\ call_pc = "return") =>
        IF args.folder = <<>>
        THEN returned = Some([raised |-> FALSE, folder |-> None, line_numbers |-> None])
        ELSE LET numbers == [k \in 1..Len(args.elems) |-> args.elems[k].value]
                 padded == IF Len(args.folder) = 1 THEN <<"0">> \o args.folder ELSE args.folder
             IN  /\ returned = Some([raised |-> FALSE, folder |-> Some(padded),
                                     line_numbers |-> Some(numbers)])
                 /\ \A k \in 1..Len(numbers) :
                        get_text_from_lines(TwoLines, <<numbers[k]>>) =
                            CASE numbers[k] = 1 -> Some(<<"a">>)
                              [] numbers[k] = 2 -> Some(<<"a", "a">>)
                              [] OTHER -> None

\* a one-digit folder padded and a list with blanks read in order, on a line
\* with a tag-like text before the tag and a second tag after it
C14_Witness ==
    /\ callee = "find_cross_reference_pattern"
    /\ call_pc = "return"
    /\ args.pre = Tag(<<"1">>, <<>>) \o <<" ">>
    /\ args.folder = <<"3">>
    /\ args.post = <<" ">> \o Tag(<<"9">>, <<"9">>)
    /\ The(returned).folder = Some(<<"0", "3">>)
    /\ The(returned).line_numbers = Some(<<2, 10>>)

\* C15 (as claimed): keyword-mode extraction matches, whatever the case, a
\* keyword replay or preview followed by whitespace and a number of one to
\* three digits; the number padded with zeros to two digits is the target
\* folder and the whole dialogue text of the line is the text searched for; a
\* keyword followed by a number of more than three digits is no reference to
\* the folder its first three digits name.
C15_KeywordAndShortNumber ==
    (callee = "find_pattern_in_line" /\ call_pc = "return") =>
        LET padded == IF Len(args.digits) = 1 THEN <<"0">> \o args.digits ELSE args.digits
            whole == strip(args.pre \o args.keyword \o args.blanks \o args.digits \o args.post)
        IN  IF args.blanks = <<>> \/ args.digits = <<>> THEN returned = None
            ELSE IF Len(args.digits) <= 3
                 THEN returned = Some([pattern_type |-> args.type,
                                       pattern_number |-> padded,
                                       search_text |-> whole])
            ELSE \/ returned = None
                 \/ The(returned).pattern_number # SubSeq(args.digits, 1, 3)

\* where the ",," separators of the line start, found left to right, one
\* starting no earlier than where the one before it ends
RECURSIVE SeparatorsFrom(_, _)
SeparatorsFrom(line, i) ==
    IF i > Len(line) THEN <<>>
    ELSE IF OccursAt(FieldSeparator, line, i) THEN <<i>> \o SeparatorsFrom(line, i + 2)
    ELSE SeparatorsFrom(line, i + 1)

\* the line from the end of its n-th separator on, trimmed
TextAfter(line, n) == strip(Slice(line, SeparatorsFrom(line, 1)[n] + 2, Len(line)))

\* C16 (as claimed): the source text of a line is what follows the
\* second-to-last ",," separator, trimmed.
C16_TextAfterSecondToLastSeparator ==
    (callee = "extract_text_from_line" /\ call_pc = "return") =>
        LET n == Len(SeparatorsFrom(args, 1))
        IN  n >= 2 => /\ returned # None
                      /\ The(returned).text = Some(TextAfter(args, n - 1))

\* C16 (amended): the source text of a line is what follows the last ",,"
\* separator, trimmed; a line without separator, and a line with nothing
\* but blanks after the last one, has no usable text and gives no result.
C16_TextAfterLastSeparator ==
    (callee = "extract_text_from_line" /\ call_pc = "return") =>
        LET n == Len(SeparatorsFrom(args, 1))
        IN  IF n = 0 THEN returned = None
            ELSE IF TextAfter(args, n) = <<>> THEN returned = None
            ELSE /\ returned # None
                 /\ The(returned).text = Some(TextAfter(args, n))

\* a line with two separators and a text with blanks around it after the
\* second; what lies between the separators is not the text
C16_Witness ==
    /\ callee = "extract_text_from_line"
    /\ call_pc = "return"
    /\ Len(SeparatorsFrom(args, 1)) = 2
    /\ TextAfter(args, 1) # TextAfter(args, 2)
    /\ args[Len(args)] = " "
    /\ returned # None
    /\ The(returned).text = Some(<<"a">>)

\* C17 (as claimed): the similarity score is symmetric, so that swapping
\* source and target changes neither the score nor, under any threshold,
\* the classification.
C17_SimilaritySymmetric ==
    (callee = "calculate_similarity" /\ call_pc = "return") =>
        /\ returned = Some(calculate_similarity(args[2], args[1]))
        /\ \A threshold \in Thresholds :
               get_match_status(args[1], args[2], threshold)
                   = get_match_status(args[2], args[1], threshold)

\* the words of a text: the maximal runs of characters between separators,
\* a separator being a whitespace character or a marker \N, read left to right
RECURSIVE WordsFrom(_, _, _)
WordsFrom(t, i, cur) ==
    IF i > Len(t) THEN (IF cur = <<>> THEN <<>> ELSE <<cur>>)
    ELSE IF OccursAt(<<"\\", "N">>, t, i)
         THEN (IF cur = <<>> THEN <<>> ELSE <<cur>>) \o WordsFrom(t, i + 2, <<>>)
    ELSE IF t[i] \in Whitespace
         THEN (IF cur = <<>> THEN <<>> ELSE <<cur>>) \o WordsFrom(t, i + 1, <<>>)
    ELSE WordsFrom(t, i + 1, Append(cur, t[i]))

\* C19: normalize_text gives the empty string for None and the empty
\* string; otherwise it gives the words of the text joined by single spaces,
\* every marker \N and every run of whitespace being one separator; its
\* output holds no marker \N, no whitespace but single spaces between words,
\* none at either end, and normalizing it again changes nothing.
C19_NormalFormAndIdempotence ==
    (callee = "normalize_text" /\ call_pc = "return") =>
        LET out == The(returned)
        IN  /\ ~Truthy(args) => out = <<>>
            /\ Truthy(args) => out = join(WordsFrom(The(args), 1, <<>>), <<" ">>)
            /\ ~Contains(out, <<"\\", "N">>)
            /\ \A i \in 1..Len(out) :
                   out[i] \in Whitespace =>
                       /\ out[i] = " "
                       /\ 1 < i /\ i < Len(out)
                       /\ out[i + 1] \notin Whitespace
            /\ normalize_text(Some(out)) = out

\* a text with a blank and a marker between two letters, normalized to the
\* two letters with one space between them
C19_Witness ==
    /\ callee = "normalize_text"
    /\ call_pc = "return"
    /\ args = Some(<<"a", " ", "\\", "N", "a">>)
    /\ returned = Some(<<"a", " ", "a">>)

\* C18: every score lies in [0, 100]; the score of two texts with the same
\* normal form is exactly 100; so a pair classified EXACT has the score 100.
C18_ScoreRangeAndExactIsHundred ==
    cpc = "done" =>
        LET score == The(similarity)
        IN  /\ 0 <= score.num /\ score.num <= 100 * score.den /\ score.den > 0
            /\ normalize_text(text1) = normalize_text(text2) => score.num = 100 * score.den
            /\ status = Some(EXACT) => score.num = 100 * score.den

\* two different texts whose normal forms are both empty, classified EXACT with the score 100
C18_Witness ==
    /\ cpc = "done"
    /\ text1 # text2
    /\ Truthy(text1) /\ Truthy(text2)
    /\ normalize_text(text1) = <<>>
    /\ normalize_text(text2) = <<>>
    /\ status = Some(EXACT)
    /\ The(similarity).num = 100 * The(similarity).den

\* C20: a run that reaches the end of main exits with status 1 if and only
\* if --fail-on-issues is set and some result of the full list is DIFFERENT
\* or NOT FOUND, whatever --filter displayed; otherwise it exits with status 0.
C20_FailOnIssuesCountsAllResults ==
    (pc = "exited" /\ args_fail # None) =>
        LET issues == \E r \in Results : r.status \in {DIFFERENT, NOT_FOUND}
        IN  /\ exit_code = Some(1) <=> (The(args_fail) /\ issues)
            /\ exit_code # Some(1) => exit_code = Some(0)

\* a run with --fail-on-issues and --filter exact that displayed no
\* DIFFERENT or NOT FOUND result, had one, and exited with status 1
C20_Witness ==
    /\ pc = "exited"
    /\ args_fail = Some(TRUE)
    /\ args_filter = Some("exact")
    /\ The(displayed) # <<>>
    /\ \A k \in 1..Len(The(displayed)) : The(displayed)[k].status = EXACT
    /\ \E r \in Results : r.status = NOT_FOUND
    /\ exit_code = Some(1)

(***************************************************************************)
(* The summary of generate_report.                                         *)
(***************************************************************************)
\* the report of a run of tool that came to generate_report
Reported(tool) ==
    /\ call_pc = "return"
    /\ callee = "generate_report"
    /\ args.tool = tool
    /\ returned # None

\* the results of the whole list that fall under each line of the summary:
\* by status in explicit mode; in keyword mode a located target whose normal
\* form equals that of the text, a located target whose normal form differs,
\* and no located target
ExplicitBuckets(all_results) ==
    [st \in {EXACT, SIMILAR, DIFFERENT, NOT_FOUND} |->
        {k \in 1..Len(all_results) : all_results[k].status = st}]
KeywordBuckets(all_results) ==
    LET same(r) == normalize_text(r.text) = normalize_text(r.target_text)
    IN  [exact_matches |-> {k \in 1..Len(all_results) :
                               all_results[k].target_file # None /\ same(all_results[k])},
         different |-> {k \in 1..Len(all_results) :
                           all_results[k].target_file # None /\ ~same(all_results[k])},
         not_found |-> {k \in 1..Len(all_results) : all_results[k].target_file = None}]

\* every index is in exactly one of the sets of the family
Partition(buckets, n) ==
    \A k \in 1..n : Cardinality({b \in DOMAIN buckets : k \in buckets[b]}) = 1

\* C21: the counts of the summary partition the whole result list: in
\* explicit mode exact + similar + different + not_found = total, in keyword
\* mode exact_matches + different + not_found = total; every result is in
\* exactly one bucket, each count is the size of its bucket in the whole
\* list, whatever the filter displayed, and total is the length of that list
C21_SummaryCountsPartition ==
    /\ Reported("cross-reference.py") =>
          LET all_results == The(returned).all_results
              s == The(returned).summary
              buckets == ExplicitBuckets(all_results)
          IN  /\ s.total = Len(all_results)
              /\ s.displayed = Len(The(returned).results)
              /\ s.exact + s.similar + s.different + s.not_found = s.total
              /\ Partition(buckets, Len(all_results))
              /\ s.exact = Cardinality(buckets[EXACT])
              /\ s.similar = Cardinality(buckets[SIMILAR])
              /\ s.different = Cardinality(buckets[DIFFERENT])
              /\ s.not_found = Cardinality(buckets[NOT_FOUND])
    /\ Reported("report.py") =>
          LET all_results == The(returned).all_results
              s == The(returned).summary
              buckets == KeywordBuckets(all_results)
          IN  /\ s.total = Len(all_results)
              /\ s.displayed = Len(The(returned).results)
              /\ s.exact_matches + s.different + s.not_found = s.total
              /\ Partition(buckets, Len(all_results))
              /\ s.exact_matches = Cardinality(buckets.exact_matches)
              /\ s.different = Cardinality(buckets.different)
              /\ s.not_found = Cardinality(buckets.not_found)

\* a keyword-mode report under --different that displays fewer results than
\* the list holds, the list having results in all three buckets
C21_Witness ==
    /\ Reported("report.py")
    /\ args.filter = "different"
    /\ The(returned).summary.displayed < The(returned).summary.total
    /\ The(returned).summary.exact_matches > 0
    /\ The(returned).summary.different > 0
    /\ The(returned).summary.not_found > 0
(***************************************************************************)
(* The run as a function of its input.                                     *)
(***************************************************************************)
\* process_files has returned
Returned == pc \in {"report", "fail_on_issues"} \/ (pc = "exited" /\ displayed # None)

Aborted == pc = "raised" \/ (pc = "exited" /\ displayed = None)

\* C23: a run ends before its report only for an invalid threshold or a
\* missing root path, then with exit status 1, no result and no file read
\* (the only access being the test of the root path); no exception leaves
\* the program, so a run past these two tests comes to its report
C23_OnlyRootAndThresholdFatal ==
    /\ pc # "raised"
    /\ Aborted =>
          /\ ~threshold_ok(fuzzy_threshold) \/ ~exists(base_dir)
          /\ exit_code = Some(1)
          /\ results = <<>>
          /\ accesses <= 1
(***************************************************************************)
(* The line numbers of a result.                                           *)
(***************************************************************************)
\* the file called name in folder folder_name of the tree
FileAt(base, folder_name, name) ==
    LET files == glob_ass(Child(base, folder_name))
    IN  files[CHOOSE i \in 1..Len(files) : files[i].name = name]

\* line_num of an explicit-mode result is the ordinal, among the event lines
\* of its file, of the line that holds its tag and text; its target line
\* numbers are ordinals among the event lines of the target file
ExplicitOrdinals(base, r) ==
    LET event_lines == get_event_lines(FileAt(base, r.folder, r.file))
    IN  /\ r.line_num \in 1..Len(event_lines)
        /\ xref_reference(event_lines[r.line_num]).reference =
               Some([target_folder_num |-> The(r.target_folder),
                     target_line_numbers |-> The(r.target_line_numbers),
                     text |-> r.text])
        /\ r.target_file # None =>
               r.target_text =
                   Some(join(TextsOfLines(
                                 get_event_lines(FileAt(base, The(r.target_folder),
                                                        The(r.target_file))),
                                 The(r.target_line_numbers), 1),
                             <<" ">>))

\* line_num of a keyword-mode result is the ordinal, among the event lines of
\* its file, of the line that holds its keyword and text; its target line
\* number is the ordinal of the target line among the event lines of the
\* target file
KeywordOrdinals(base, r) ==
    LET event_lines == get_event_lines(FileAt(base, r.folder, r.file))
    IN  /\ r.line_num \in 1..Len(event_lines)
        /\ report_reference(event_lines[r.line_num]) =
               Some([pattern_type |-> r.pattern_type,
                     pattern_number |-> r.pattern_number,
                     search_text |-> The(r.text)])
        /\ r.target_file # None =>
               LET target_lines ==
                       get_event_lines(FileAt(base, r.pattern_number, The(r.target_file)))
               IN  /\ The(r.target_line_num) \in 1..Len(target_lines)
                   /\ extract_text_from_line(target_lines[The(r.target_line_num)])
                          = r.target_text

\* C24: the line numbers of every result, of the source line and of the
\* target, are 1-based ordinals among the event lines of the file, in
\* explicit mode and in keyword mode
C24_LineNumbersAreEventOrdinals ==
    /\ Reported("cross-reference.py") =>
           \A k \in 1..Len(The(returned).all_results) :
               ExplicitOrdinals(args.path, The(returned).all_results[k])
    /\ Reported("report.py") =>
           \A k \in 1..Len(The(returned).all_results) :
               KeywordOrdinals(args.path, The(returned).all_results[k])
(***************************************************************************)
(* The filter and the report leave the results as they are.                *)
(***************************************************************************)
\* the statuses a filter type selects
StatusesOf(type) ==
    IF type = "matched" THEN {EXACT, SIMILAR}
    ELSE IF type = "exact" THEN {EXACT}
    ELSE IF type = "similar" THEN {SIMILAR}
    ELSE IF type = "different" THEN {DIFFERENT}
    ELSE IF type = "not-found" THEN {NOT_FOUND}
    ELSE {EXACT, SIMILAR, DIFFERENT, NOT_FOUND}

\* the elements of rs with a status in keep, each once, in the order of rs
RECURSIVE Selection(_, _)
Selection(rs, keep) ==
    IF rs = <<>> THEN <<>>
    ELSE (IF Head(rs).status \in keep THEN <<Head(rs)>> ELSE <<>>)
             \o Selection(Tail(rs), keep)

\* C25: what is displayed is the selection, in order, of the results whose
\* status is in the set of the filter type; and neither the filter, the
\* report nor the end of main changes the result list or a result in it
C25_FilterSelectsAndKeepsResults ==
    /\ [](displayed # None =>
              The(displayed) = Selection(results, StatusesOf(The(args_filter))))
    /\ [][(pc \in {"report", "fail_on_issues"}) => (results' = results)]_vars

\* the filter "matched" displayed an exact and a similar match, in their
\* order, out of a list that holds other results too
C25_Witness ==
    /\ displayed # None
    /\ args_filter = Some("matched")
    /\ Len(The(displayed)) < Len(results)
    /\ \E i, j \in 1..Len(The(displayed)) :
           /\ i < j
           /\ The(displayed)[i].status # The(displayed)[j].status
(***************************************************************************)
(* The scores of the free-text lookup.                                     *)
(***************************************************************************)
\* C26: the free-text find_text_in_folder never divides by zero: no call
\* ends in ZeroDivisionError, whatever the search text and the target lines
C26_NoDivisionByZero == lpc # "free raised"

\* a lookup of a text with a non-empty normal form returned after the score
\* of a first line whose text has an empty normal form, the divisor being
\* the length of the search text
C26_Witness ==
    /\ lpc = "free done"
    /\ glob_ass(target_folder) # <<>>
    /\ read_ass_file(glob_ass(target_folder)[1]) # <<>>
    /\ LET file == glob_ass(target_folder)[1]
           line == read_ass_file(file)[1]
       IN  /\ Contains(line, DialoguePrefix)
           /\ Truthy(extract_text_from_line(line))
           /\ normalize_text(extract_text_from_line(line)) = <<>>
           /\ normalize_text(search_text) # <<>>
           /\ Denominators(file, 1, normalize_text(search_text))
                  = {Len(normalize_text(search_text))}
(***************************************************************************)
(* The order of a run.                                                     *)
(***************************************************************************)
\* the folder names of the range argument N or N-M: N..M, two digits each
FoldersOfRange(range_str) ==
    LET dash == CHOOSE i \in 1..Len(range_str) + 1 :
                    (i = Len(range_str) + 1 \/ range_str[i] = "-")
                        /\ \A j \in 1..i - 1 : range_str[j] # "-"
        first == DecimalValue(SubSeq(range_str, 1, dash - 1))
        last == IF dash > Len(range_str) THEN first
                ELSE DecimalValue(SubSeq(range_str, dash + 1, Len(range_str)))
    IN  [k \in 1..(last - first + 1) |->
            IF first + k - 1 < 10 THEN <<"0">> \o str(first + k - 1) ELSE str(first + k - 1)]

\* where a result comes from: the position of its folder in the folders of
\* the range, of its file in the listing of the folder, and its event line
PositionOf(r) ==
    LET names == FoldersOfRange(args_range)
        files == glob_ass(Child(base_dir, r.folder))
    IN  << CHOOSE k \in 1..Len(names) : names[k] = r.folder,
           CHOOSE k \in 1..Len(files) : files[k].name = r.file,
           r.line_num >>

\* lexicographic order of positions
Earlier(p, q) ==
    \/ p[1] < q[1]
    \/ p[1] = q[1] /\ p[2] < q[2]
    \/ p[1] = q[1] /\ p[2] = q[2] /\ p[3] < q[3]

\* the folder loop has started
InFolders == pc \in {"folder", "file", "line", "report", "fail_on_issues"}
                 \/ (pc \in {"exited", "raised"} /\ folders_to_process # <<>>)

\* C27: the folders visited are those of the range N..M (a single N alone),
\* zero-padded to two digits and ascending, the loops being inside a folder
\* only if it exists; every result comes from an existing folder of the
\* range, from a listed file and from one of its event lines; the results
\* are in the order of folder, file listing and event line, strictly, so no
\* event line has two; and every step leaves the list as it is or appends
\* one result to it
C27_RangeVisitedInOrder ==
    /\ [](InFolders => folders_to_process = FoldersOfRange(args_range))
    /\ [](pc \in {"file", "line"} => exists(CurrentFolder))
    /\ [](\A k \in 1..Len(results) :
              /\ \E i \in 1..Len(FoldersOfRange(args_range)) :
                     FoldersOfRange(args_range)[i] = results[k].folder
              /\ exists(Child(base_dir, results[k].folder))
              /\ \E i \in 1..Len(glob_ass(Child(base_dir, results[k].folder))) :
                     glob_ass(Child(base_dir, results[k].folder))[i].name = results[k].file
              /\ results[k].line_num \in
                     1..Len(get_event_lines(FileAt(base_dir, results[k].folder,
                                                   results[k].file))))
    /\ [](\A i, j \in 1..Len(results) :
              i < j => Earlier(PositionOf(results[i]), PositionOf(results[j])))
    /\ [][results' = results
             \/ (Len(results') = Len(results) + 1
                    /\ SubSeq(results', 1, Len(results)) = results)]_vars

\* a run over folders 01 and 02 returned results of two files of folder 01
\* and one of folder 02
C27_Witness ==
    /\ pc = "report"
    /\ folders_to_process = << <<"0", "1">>, <<"0", "2">> >>
    /\ \E i, j, k \in 1..Len(results) :
           /\ i < j /\ j < k
           /\ results[i].folder = <<"0", "1">>
           /\ results[j].folder = <<"0", "1">>
           /\ results[i].file # results[j].file
           /\ results[k].folder = <<"0", "2">>
(***************************************************************************)
(* SpecGui: the window of the fuzzy text checker,                          *)
(* src/tools/fuzzy-text-checker/fuzzy_checker.py: the buttons Check and    *)
(* Mark as Resolved and the selection of a row of the results list.  The   *)
(* content of a text widget is the sequence of its lines, what             *)
(* get('1.0', 'end-1c').split('\n') returns.                               *)
(***************************************************************************)
\* most lines of the text widget
MaxTextLines == 2

\* length of a longest common subsequence
RECURSIVE LCS(_, _)
LCS(a, b) ==
    IF a = <<>> \/ b = <<>> THEN 0
    ELSE IF Head(a) = Head(b) THEN 1 + LCS(Tail(a), Tail(b))
    ELSE LET x == LCS(Tail(a), b)
             y == LCS(a, Tail(b))
         IN  IF x >= y THEN x ELSE y

\* rapidfuzz.fuzz.ratio(s1, s2): the normalized Indel similarity times 100,
\* 100 * (1 - (len1 + len2 - 2 * LCS) / (len1 + len2)), as the fraction num / den
fuzz_ratio(s1, s2) ==
    IF Len(s1) + Len(s2) = 0 THEN [num |-> 100, den |-> 1]
    ELSE [num |-> 200 * LCS(s1, s2), den |-> Len(s1) + Len(s2)]

\* _normalize_for_comparison(text): text.strip().lower()
normalize_for_comparison(text) == [k \in 1..Len(strip(text)) |-> lower(strip(text)[k])]

\* re.finditer(r'\b[\w\-]+\b', line) on a line of letters and blanks: the
\* maximal runs of letters from position i on (from 1), each with the
\* start and end of the match (from 0, the end excluded)
RECURSIVE finditer_words(_, _)
finditer_words(line, i) ==
    IF i > Len(line) THEN <<>>
    ELSE IF line[i] \in Whitespace THEN finditer_words(line, i + 1)
    ELSE LET n == CHOOSE x \in 1..Len(line) - i + 1 :
                      /\ \A j \in i..i + x - 1 : line[j] \notin Whitespace
                      /\ (i + x > Len(line) \/ line[i + x] \in Whitespace)
         IN  <<[group |-> SubSeq(line, i, i + n - 1), start |-> i - 1, end |-> i + n - 1]>>
                 \o finditer_words(line, i + n)

\* the dict _check_text appends for a word of line line_num and a term
TypoResult(line_num, line, match, term) ==
    LET context_start == IF match.start - 20 > 0 THEN match.start - 20 ELSE 0
        context_end == IF match.end + 20 < Len(line) THEN match.end + 20 ELSE Len(line)
    IN  [line |-> line_num,
         term |-> term,
         found |-> match.group,
         ratio |-> fuzz_ratio(normalize_for_comparison(match.group),
                              normalize_for_comparison(term)),
         context |-> strip(SubSeq(line, context_start + 1, context_end))]

\* the loop of _check_text over the terms from term k on, for one word
RECURSIVE term_loop(_, _, _, _, _, _, _)
term_loop(line_num, line, match, terms, k, ratio_threshold, acc) ==
    IF k > Len(terms) THEN acc
    ELSE LET r == TypoResult(line_num, line, match, terms[k])
         IN  term_loop(line_num, line, match, terms, k + 1, ratio_threshold,
                 IF normalize_for_comparison(match.group) = normalize_for_comparison(terms[k])
                 THEN acc
                 ELSE IF r.ratio.num >= ratio_threshold * r.ratio.den THEN Append(acc, r)
                 ELSE acc)

\* the loop of _check_text over the words of a line from word j on
RECURSIVE word_loop(_, _, _, _, _, _, _)
word_loop(line_num, line, matches, j, terms, ratio_threshold, acc) ==
    IF j > Len(matches) THEN acc
    ELSE word_loop(line_num, line, matches, j + 1, terms, ratio_threshold,
             term_loop(line_num, line, matches[j], terms, 1, ratio_threshold, acc))

\* the loop of _check_text over the lines of the text from line line_num on
RECURSIVE line_loop(_, _, _, _, _)
line_loop(lines, line_num, terms, ratio_threshold, acc) ==
    IF line_num > Len(lines) THEN acc
    ELSE line_loop(lines, line_num + 1, terms, ratio_threshold,
             word_loop(line_num, lines[line_num], finditer_words(lines[line_num], 1), 1,
                       terms, ratio_threshold, acc))

\* content.strip() is empty: every line of the widget is blank
Blank(content) == \A k \in 1..Len(content) : strip(content[k]) = <<>>

\* [t.strip() for t in terms_content.split('\n') if t.strip()]
terms_of(terms_content) ==
    LET kept == SelectSeq(terms_content, LAMBDA t : strip(t) # <<>>)
    IN  [k \in 1..Len(kept) |-> strip(kept[k])]

\* f"{ratio:.0f}": the ratio rounded to an integer, a half to the even one
Rounded(ratio) ==
    LET q == ratio.num \div ratio.den
        twice == 2 * (ratio.num % ratio.den)
    IN  IF twice > ratio.den \/ (twice = ratio.den /\ q % 2 = 1) THEN q + 1 ELSE q

\* the row _update_results_list inserts for a result
Display(result) ==
    [line |-> result.line, found |-> result.found, term |-> result.term,
     percent |-> Rounded(result.ratio)]

\* _update_results_list: the rows of the listbox after it, one for each
\* result whose index (from 0) is not in resolved_items, in the order of the list
update_results_list(rs, resolved) ==
    LET unresolved == SelectSeq([k \in 1..Len(rs) |-> k], LAMBDA k : (k - 1) \notin resolved)
    IN  [k \in 1..Len(unresolved) |-> Display(rs[unresolved[k]])]

\* the index taken for the selected row: the row number itself
actual_index_of_row(rs, resolved, visible_idx, idx, actual_idx) == visible_idx

\* the loop of _mark_resolved from index idx on, actual_idx counting the
\* unresolved results passed: at the unresolved result number visible_idx
\* actual_idx becomes its index and the loop breaks; a loop that ends
\* without break leaves the count in actual_idx
RECURSIVE actual_index(_, _, _, _, _)
actual_index(rs, resolved, visible_idx, idx, actual_idx) ==
    IF idx >= Len(rs) THEN actual_idx
    ELSE IF idx \notin resolved
         THEN IF actual_idx = visible_idx THEN idx
              ELSE actual_index(rs, resolved, visible_idx, idx + 1, actual_idx + 1)
    ELSE actual_index(rs, resolved, visible_idx, idx + 1, actual_idx)

\* the lines of the text widget: two words near the terms; a term in other case
TextLines == {<<"a", "b", " ", "a", "c">>, <<" ", "A", "B">>}

\* contents of the text widget: empty, or at most MaxTextLines of the lines
TextContents ==
    { <<<<>>>> } \cup {t \in SeqUpTo(TextLines, MaxTextLines) : t # <<>>}

\* contents of the terms widget: blank, one term, two terms around a blank line
TermsContents ==
    { << <<" ">> >>,
      << <<"a", "b">> >>,
      << <<"a", "b", " ">>, <<>>, <<"a", "c">> >> }

\* the ratio entry: no number (float() raises ValueError), or a number
RatioEntries == {None, Some(50), Some(100)}

GuiInit ==
    /\ app_results = <<>>
    /\ resolved_items = {}
    /\ results_listbox = <<>>
    /\ curselection = None
    /\ last_event = "start"
    /\ ClassifyIdle
    /\ fuzzy_threshold = 95
    /\ LocateIdle
    /\ RunIdle
    /\ CallIdle
    /\ MuxIdle

\* the button Check: _check_text.  An entry that is no number, an empty
\* terms list or an empty text shows a message and returns; else the results
\* and resolved_items are replaced and the listbox is filled again, which
\* drops its selection
CheckText ==
    /\ \E ratio_var \in RatioEntries, terms_content \in TermsContents,
          text_content \in TextContents :
           IF ratio_var = None \/ Blank(terms_content) \/ Blank(text_content)
           THEN /\ last_event' = "check rejected"
                /\ UNCHANGED <<app_results, resolved_items, results_listbox, curselection>>
           ELSE /\ app_results' = line_loop(text_content, 1, terms_of(terms_content),
                                            The(ratio_var), <<>>)
                /\ resolved_items' = {}
                /\ results_listbox' = update_results_list(app_results', {})
                /\ curselection' = None
                /\ last_event' = "check"
    /\ UNCHANGED <<classify_vars, fuzzy_threshold, locate_vars, run_vars, call_vars, mux_vars>>

\* a click on a row of the listbox: the row is selected, and
\* _on_result_select shows its line in the text widget
SelectRow ==
    /\ \E row \in 0..Len(results_listbox) - 1 : curselection' = Some(row)
    /\ last_event' = "select"
    /\ UNCHANGED <<app_results, resolved_items, results_listbox>>
    /\ UNCHANGED <<classify_vars, fuzzy_threshold, locate_vars, run_vars, call_vars, mux_vars>>

\* the button Mark as Resolved: _mark_resolved.  Without selection nothing
\* happens; else the index found for the selected row is added to
\* resolved_items and the listbox is filled again
MarkResolved ==
    /\ IF curselection = None
       THEN /\ last_event' = "mark ignored"
            /\ UNCHANGED <<resolved_items, results_listbox, curselection>>
       ELSE /\ resolved_items' =
                   resolved_items \cup
                       {actual_index(app_results, resolved_items, The(curselection), 0, 0)}
            /\ results_listbox' = update_results_list(app_results, resolved_items')
            /\ curselection' = None
            /\ last_event' = "mark"
    /\ UNCHANGED app_results
    /\ UNCHANGED <<classify_vars, fuzzy_threshold, locate_vars, run_vars, call_vars, mux_vars>>

GuiNext ==
    \/ CheckText
    \/ SelectRow
    \/ MarkResolved

SpecGui == GuiInit /\ [][GuiNext]_vars

\* the indices (from 0) of the results that are not resolved, ascending
Unresolved ==
    SelectSeq([k \in 1..Len(app_results) |-> k - 1], LAMBDA i : i \notin resolved_items)

\* resolved_items holds indices of results only; the listbox shows the
\* unresolved results, each once, in the order of the list; a selection is
\* one of its rows
ListboxShowsUnresolved ==
    /\ resolved_items \subseteq 0..Len(app_results) - 1
    /\ Len(results_listbox) = Len(Unresolved)
    /\ \A k \in 1..Len(Unresolved) :
           results_listbox[k] = Display(app_results[Unresolved[k] + 1])
    /\ curselection # None => The(curselection) \in 0..Len(results_listbox) - 1

\* Mark as Resolved with row k selected (rows from 0) adds the index of the
\* unresolved result number k, which was not in the set, and nothing else,
\* and leaves the results as they are
MarkAddsSelected ==
    last_event' = "mark" /\ vars' # vars =>
        /\ curselection # None
        /\ Unresolved[The(curselection) + 1] \notin resolved_items
        /\ resolved_items' = resolved_items \cup {Unresolved[The(curselection) + 1]}
        /\ app_results' = app_results

\* C28 as stated: the invariants of the window, and every Check, whatever
\* its inputs, leaves resolved_items empty
C28_EveryCheckResets ==
    /\ []ListboxShowsUnresolved
    /\ [][MarkAddsSelected]_vars
    /\ [](last_event \in {"check", "check rejected"} => resolved_items = {})

\* C28: after any sequence of Check, row selections and Mark as Resolved,
\* resolved_items holds indices of results, the listbox shows the unresolved
\* results in order, Mark as Resolved adds the index of the unresolved result
\* of the selected row and no other; a Check that gets past the tests of its
\* inputs replaces the results and empties resolved_items, and a Check that
\* is rejected leaves results, resolved_items and listbox as they were
C28_ListboxTracksUnresolved ==
    /\ []ListboxShowsUnresolved
    /\ [][MarkAddsSelected]_vars
    /\ [](last_event = "check" => resolved_items = {})
    /\ [][last_event' = "check rejected" =>
              UNCHANGED <<app_results, resolved_items, results_listbox, curselection>>]_vars

\* the second row was marked after the first row had been: of four
\* results those of index 0 and 2 are resolved, and the listbox shows the
\* other two
C28_Witness ==
    /\ last_event = "mark"
    /\ Len(app_results) = 4
    /\ resolved_items = {0, 2}
    /\ Len(results_listbox) = 2
(***************************************************************************)
(* SpecMux: a run of src/mux.py from load_config to the end of main.  The  *)
(* muxing library is outside the model: a call of process_episode returns  *)
(* or raises an Exception, and may leave the work directory behind.        *)
(***************************************************************************)
\* most episodes of a configuration
MaxEpisodes == 3

Dots == <<".", ".", ".">>

\* parse_episodes with range(int(start), int(end)): the last episode left out
parse_episodes_exclusive(value) ==
    IF value.type = "list" THEN Some(value.value)
    ELSE IF value.type = "int" THEN Some(<<value.value>>)
    ELSE IF value.type = "str" /\ Contains(value.value, Dots)
    THEN LET parts == split(value.value, Dots)
         IN  IF Len(parts) # 2 \/ int(parts[1]) = None \/ int(parts[2]) = None THEN None
             ELSE Some([k \in 1..(The(int(parts[2])) - The(int(parts[1]))) |->
                           The(int(parts[1])) + k - 1])
    ELSE None

\* parse_episodes(value): the list of episodes, None when it raises
\* ValueError.  A list (of integers here) gives its elements, an integer
\* itself, a string with "..." the inclusive range of its two numbers
parse_episodes(value) ==
    IF value.type = "list" THEN Some(value.value)
    ELSE IF value.type = "int" THEN Some(<<value.value>>)
    ELSE IF value.type = "str" /\ Contains(value.value, Dots)
    THEN LET parts == split(value.value, Dots)
         IN  IF Len(parts) # 2 \/ int(parts[1]) = None \/ int(parts[2]) = None THEN None
             ELSE Some([k \in 1..(The(int(parts[2])) + 1 - The(int(parts[1]))) |->
                           The(int(parts[1])) + k - 1])
    ELSE None

\* values of "episodes" in config.toml: an integer, lists of integers, with
\* repeats and out of order, ranges as strings, and values parse_episodes
\* rejects: a float, a string without "...", with two of them, with no number
EpisodeNumbers == 1..2
EpisodesValues ==
    {[type |-> "int", value |-> 2], [type |-> "float", value |-> 1]}
        \cup {[type |-> "list", value |-> l] : l \in SeqUpTo(EpisodeNumbers, MaxEpisodes)}
        \cup {[type |-> "str", value |-> <<"1">> \o Dots \o str(n)] : n \in 0..MaxEpisodes}
        \cup {[type |-> "str", value |-> v] :
                 v \in {<<"1", "-", "2">>, <<"1">> \o Dots \o <<"2">> \o Dots \o <<"3">>,
                        <<"a">> \o Dots \o <<"2">>}}

MuxInit ==
    /\ config_value \in {Some(v) : v \in EpisodesValues}
    /\ config_episodes = None
    /\ episodes_path \in BOOLEAN
    /\ ep_idx = 0
    /\ attempted = <<>>
    /\ error_log = <<>>
    /\ work_dir \in BOOLEAN
    /\ mux_pc = "load_config"
    /\ ClassifyIdle
    /\ fuzzy_threshold = 95
    /\ LocateIdle
    /\ RunIdle
    /\ CallIdle
    /\ GuiIdle

\* the module level: CONFIG = load_config(CONFIG_PATH).  A value of
\* "episodes" that parse_episodes rejects ends the program before main
LoadConfig ==
    /\ mux_pc = "load_config"
    /\ IF parse_episodes(The(config_value)) = None
       THEN mux_pc' = "raised" /\ UNCHANGED config_episodes
       ELSE mux_pc' = "main" /\ config_episodes' = parse_episodes(The(config_value))
    /\ UNCHANGED <<config_value, episodes_path, ep_idx, attempted, error_log, work_dir>>
    /\ UNCHANGED <<classify_vars, fuzzy_threshold, locate_vars, run_vars, call_vars, gui_vars>>

\* main up to its loop: validate_paths exits 1 when the episodes path is missing
ValidatePaths ==
    /\ mux_pc = "main"
    /\ IF ~episodes_path
       THEN mux_pc' = "exited" /\ UNCHANGED ep_idx
       ELSE mux_pc' = "loop" /\ ep_idx' = 1
    /\ UNCHANGED <<config_value, config_episodes, episodes_path, attempted, error_log,
                   work_dir>>
    /\ UNCHANGED <<classify_vars, fuzzy_threshold, locate_vars, run_vars, call_vars, gui_vars>>

\* one pass of the loop of main: process_episode(ep) returns or raises an
\* Exception, which is caught and logged with the episode; either way the
\* work directory may have been created, and the loop goes on
ProcessEpisode ==
    /\ mux_pc = "loop"
    /\ ep_idx <= Len(The(config_episodes))
    /\ \E outcome \in {"returned", "raised"}, created \in BOOLEAN :
           /\ attempted' = Append(attempted, [ep |-> The(config_episodes)[ep_idx],
                                              outcome |-> outcome])
           /\ error_log' = IF outcome = "raised"
                           THEN Append(error_log, The(config_episodes)[ep_idx])
                           ELSE error_log
           /\ work_dir' = (work_dir \/ created)
    /\ ep_idx' = ep_idx + 1
    /\ UNCHANGED <<config_value, config_episodes, episodes_path, mux_pc>>
    /\ UNCHANGED <<classify_vars, fuzzy_threshold, locate_vars, run_vars, call_vars, gui_vars>>

\* main after its loop: the work directory is removed if it exists
RemoveWorkDir ==
    /\ mux_pc = "loop"
    /\ ep_idx > Len(The(config_episodes))
    /\ work_dir' = FALSE
    /\ mux_pc' = "done"
    /\ UNCHANGED <<config_value, config_episodes, episodes_path, ep_idx, attempted,
                   error_log>>
    /\ UNCHANGED <<classify_vars, fuzzy_threshold, locate_vars, run_vars, call_vars, gui_vars>>

MuxNext ==
    \/ LoadConfig
    \/ ValidatePaths
    \/ ProcessEpisode
    \/ RemoveWorkDir

\* the program is sequential: the statement it is at is executed, and a
\* call of process_episode comes to its end, by return or by exception
SpecMux == MuxInit /\ [][MuxNext]_vars /\ WF_vars(MuxNext)

\* the episodes a valid value of "episodes" configures, in their order; the
\* ranges of the model are written 1...M
ConfiguredEpisodes ==
    LET value == The(config_value)
        last == DecimalValue(SubSeq(value.value, 5, Len(value.value)))
    IN  IF value.type = "int" THEN <<value.value>>
        ELSE IF value.type = "list" THEN value.value
        ELSE [k \in 1..last |-> k]

\* the episodes of the attempts that raised, in their order
RaisedIn(attempts) ==
    LET raised == SelectSeq(attempts, LAMBDA a : a.outcome = "raised")
    IN  [k \in 1..Len(raised) |-> raised[k].ep]

\* C29: the loop of main attempts every configured episode once, in the
\* configured order, whatever the earlier attempts did: at every moment
\* the attempts are the configured episodes before the position of the loop,
\* the errors logged are those of the attempts that raised, and each step
\* adds at most the one attempt of the position; a run that enters the loop
\* comes to its end, where every configured episode has been attempted and
\* the work directory does not exist
C29_EveryEpisodeAttemptedOnce ==
    /\ [](mux_pc \in {"loop", "done"} =>
              /\ The(config_episodes) = ConfiguredEpisodes
              /\ Len(attempted) = ep_idx - 1
              /\ \A k \in 1..Len(attempted) : attempted[k].ep = ConfiguredEpisodes[k]
              /\ error_log = RaisedIn(attempted))
    /\ [](mux_pc = "done" =>
              /\ Len(attempted) = Len(ConfiguredEpisodes)
              /\ ~work_dir)
    /\ [][attempted' = attempted
             \/ (Len(attempted') = Len(attempted) + 1
                    /\ SubSeq(attempted', 1, Len(attempted)) = attempted)]_vars
    /\ (mux_pc = "loop" ~> mux_pc = "done")

\* a run over three episodes ended after the first attempt had raised and
\* the later ones had returned
C29_Witness ==
    /\ mux_pc = "done"
    /\ Len(attempted) = 3
    /\ attempted[1].outcome = "raised"
    /\ attempted[2].outcome = "returned"
    /\ attempted[3].outcome = "returned"
    /\ error_log = <<attempted[1].ep>>
====
